---- MODULE Spec2Model ----
(***************************************************************************)
(* A model of tangram's GLProgram (src/src/gl/gl_program.js): the shader   *)
(* program wrapper with its compile-time preprocessing (#define and        *)
(* #pragma injection), its uniform/attribute caches and the bound-program  *)
(* cache, together with the part of the graphics context it talks to.      *)
(*                                                                         *)
(* Shader text is modelled by its sequence of non-blank lines.  A line is  *)
(* a record [t, k, v]: t is the kind of line, k a sequence of characters   *)
(* (a transform key, a define name, a uniform name) and v a sequence of    *)
(* characters holding the rest of the line.                                *)
(***************************************************************************)
EXTENDS Integers, Sequences, FiniteSets, TLC

(* ---------------------------------------------------------------------- *)
(* Bounds of the model                                                    *)
(* ---------------------------------------------------------------------- *)
MaxPrograms == 1
MaxLines == 2
MaxSources == 1
MaxUnit == 1

(* ---------------------------------------------------------------------- *)
(* Values                                                                 *)
(* ---------------------------------------------------------------------- *)
\* null for a graphics program object (objects are 1, 2, ...)
Null == 0
\* null for a reference to a GLProgram (references are 1, 2, ...)
NoProgram == 0
\* the null uniform/attribute location; a location is <<object, name>>
NullLoc == <<0, "">>

\* characters matched by \w in a regular expression (those the model uses)
WordChars == {"a", "b", "c", "_", "A", "B", "C"}

PragmaLine(key) == [t |-> "pragma", k |-> key, v |-> <<>>]
CodeLine(s) == [t |-> "code", k |-> <<s>>, v |-> <<>>]
RefLine(name) == [t |-> "ref", k |-> <<name>>, v |-> <<>>]
DeclLine(name) == [t |-> "decl", k |-> <<name>>, v |-> <<>>]
CommentRefLine(name) == [t |-> "cmtref", k |-> <<name>>, v |-> <<>>]

(* ---------------------------------------------------------------------- *)
(* String functions used by compile()                                     *)
(* ---------------------------------------------------------------------- *)
\* String.prototype.toUpperCase, character by character
UpperChar(c) ==
    CASE c = "a" -> "A"
      [] c = "b" -> "B"
      [] c = "c" -> "C"
      [] OTHER -> c

toUpperCase(s) == [i \in 1..Len(s) |-> UpperChar(s[i])]

\* index of the first element of s equal to c, 0 when there is none
IndexOf(s, c) ==
    IF \E i \in 1..Len(s) : s[i] = c
    THEN CHOOSE i \in 1..Len(s) : s[i] = c /\ \A j \in 1..(i-1) : s[j] # c
    ELSE 0

\* key.replace(' ', '_'): a string pattern replaces the FIRST occurrence only
ReplaceSpace(s) ==
    LET i == IndexOf(s, " ")
    IN IF i = 0 THEN s ELSE [s EXCEPT ![i] = "_"]

\* 'TANGRAM_TRANSFORM_' + key.replace(' ', '_').toUpperCase()
TransformDefineName(key) == <<"TANGRAM_TRANSFORM_">> \o toUpperCase(ReplaceSpace(key))

(* ---------------------------------------------------------------------- *)
(* The two regular expressions of compile()                               *)
(* ---------------------------------------------------------------------- *)
\* new RegExp('^\\s*#pragma\\s+tangram:\\s+' + key + '\\s*$', 'm') on one line
InjectRegexpMatches(line, key) == line.t = "pragma" /\ line.k = key

\* the first line of shader the injection regexp matches, 0 for a null match
Match(shader, key) ==
    IF \E i \in 1..Len(shader) : InjectRegexpMatches(shader[i], key)
    THEN CHOOSE i \in 1..Len(shader) :
            /\ InjectRegexpMatches(shader[i], key)
            /\ \A j \in 1..(i-1) : ~InjectRegexpMatches(shader[j], key)
    ELSE 0

\* shader.replace(regexp, source) without the g flag: the first match only
Replace(shader, key, source) ==
    LET i == Match(shader, key)
    IN IF i = 0 THEN shader
       ELSE SubSeq(shader, 1, i-1) \o source \o SubSeq(shader, i+1, Len(shader))

\* new RegExp('^\\s*#pragma\\s+tangram:\\s+\\w+\\s*$', 'gm') on one line
CleanupRegexpMatches(line) ==
    /\ line.t = "pragma"
    /\ Len(line.k) > 0
    /\ \A i \in 1..Len(line.k) : line.k[i] \in WordChars

\* shader.replace(regexp, '') with the g flag: every matching line goes
KeepLine(line) == ~CleanupRegexpMatches(line)
CleanupPragmas(shader) == SelectSeq(shader, KeepLine)

(* ---------------------------------------------------------------------- *)
(* Keyed tables (JS objects): a sequence of entries in insertion order,   *)
(* which is the order of for..in.  A transform entry is [key, arr, val]:  *)
(* arr is Array.isArray(val), val the array of sources or the one source; *)
(* an entry of the merged list is [key, list]; a define entry is          *)
(* [key, val].                                                            *)
(* ---------------------------------------------------------------------- *)
HasKey(tbl, key) == \E i \in 1..Len(tbl) : tbl[i].key = key

KeyIndex(tbl, key) == CHOOSE i \in 1..Len(tbl) : tbl[i].key = key

Keys(tbl) == {tbl[i].key : i \in 1..Len(tbl)}

\* obj[key] = val on a define table
SetDefine(tbl, key, val) ==
    IF HasKey(tbl, key)
    THEN [tbl EXCEPT ![KeyIndex(tbl, key)].val = val]
    ELSE Append(tbl, [key |-> key, val |-> val])

\* define values: booleans, whole numbers, other numbers and strings
DefTrue == [kind |-> "bool", s |-> "true"]
DefFalse == [kind |-> "bool", s |-> "false"]
DefInt(s) == [kind |-> "int", s |-> s]
DefOther(s) == [kind |-> "other", s |-> s]

(* ---------------------------------------------------------------------- *)
(* GLProgram.prototype.buildDefineList                                    *)
(* ---------------------------------------------------------------------- *)
RECURSIVE CopyDefines(_, _)
CopyDefines(into, from) ==
    IF from = <<>> THEN into
    ELSE CopyDefines(SetDefine(into, Head(from).key, Head(from).val), Tail(from))

buildDefineList(global_defines, own_defines) ==
    CopyDefines(CopyDefines(<<>>, global_defines), own_defines)

(* ---------------------------------------------------------------------- *)
(* GLProgram.prototype.buildShaderTransformList                           *)
(* ---------------------------------------------------------------------- *)
\* the first loop: every global entry becomes a fresh array
RECURSIVE CopyGlobalTransforms(_)
CopyGlobalTransforms(from) ==
    IF from = <<>> THEN <<>>
    ELSE <<[key |-> Head(from).key,
            list |-> IF Head(from).arr THEN Head(from).val ELSE <<Head(from).val>>]>>
         \o CopyGlobalTransforms(Tail(from))

\* the second loop: transforms[d] = transforms[d] || []; then push
RECURSIVE PushOwnTransforms(_, _)
PushOwnTransforms(into, from) ==
    IF from = <<>> THEN into
    ELSE LET d == Head(from).key
             pushed == IF Head(from).arr THEN Head(from).val ELSE <<Head(from).val>>
             next == IF HasKey(into, d)
                     THEN [into EXCEPT ![KeyIndex(into, d)].list = @ \o pushed]
                     ELSE Append(into, [key |-> d, list |-> pushed])
         IN PushOwnTransforms(next, Tail(from))

buildShaderTransformList(global_transforms, own_transforms) ==
    PushOwnTransforms(CopyGlobalTransforms(global_transforms), own_transforms)

(* ---------------------------------------------------------------------- *)
(* GLProgram.buildDefineString                                            *)
(* ---------------------------------------------------------------------- *)
DefineLine(d) ==
    CASE d.val.kind = "bool" -> [t |-> "define", k |-> d.key, v |-> <<>>]
      [] d.val.kind = "int" -> [t |-> "define", k |-> d.key, v |-> <<d.val.s, ".0">>]
      [] OTHER -> [t |-> "define", k |-> d.key, v |-> <<d.val.s>>]

RECURSIVE buildDefineString(_)
buildDefineString(defines) ==
    IF defines = <<>> THEN <<>>
    ELSE (IF Head(defines).val = DefFalse THEN <<>> ELSE <<DefineLine(Head(defines))>>)
         \o buildDefineString(Tail(defines))

(* ---------------------------------------------------------------------- *)
(* The injection loop of compile(), lines 112-145.  The state of the loop *)
(* is [vs, fs, defines, threw]; threw is set when transform.reduce() is   *)
(* applied to an empty array, which raises a TypeError and ends compile().*)
(* ---------------------------------------------------------------------- *)
\* transform.reduce((prev, cur) => `${prev}\n${cur}`) on a non-empty array
RECURSIVE Join(_)
Join(list) ==
    IF Len(list) = 1 THEN list[1]
    ELSE Join(SubSeq(list, 1, Len(list) - 1)) \o list[Len(list)]

\* one turn of the loop for one key of the merged transform list
InjectStep(st, key, transform) ==
    LET inject_vertex == Match(st.vs, key)
        inject_fragment == Match(st.fs, key)
    IN IF inject_vertex = 0 /\ inject_fragment = 0 THEN st
       ELSE IF transform = <<>> THEN [st EXCEPT !.threw = TRUE]
       ELSE LET source == Join(transform)
            IN [vs |-> IF inject_vertex # 0 THEN Replace(st.vs, key, source) ELSE st.vs,
                fs |-> IF inject_fragment # 0 THEN Replace(st.fs, key, source) ELSE st.fs,
                defines |-> SetDefine(st.defines, TransformDefineName(key), DefTrue),
                threw |-> FALSE]

RECURSIVE InjectLoop(_, _)
InjectLoop(st, transforms) ==
    IF transforms = <<>> \/ st.threw THEN st
    ELSE InjectLoop(InjectStep(st, Head(transforms).key, Head(transforms).list),
                    Tail(transforms))

(* ---------------------------------------------------------------------- *)
(* GLProgram.prototype.ensureUniforms.  dependent_uniforms is             *)
(* [present, list]: present is FALSE for an undefined options.uniforms,   *)
(* list holds the [name, type] entries in for..in order.                  *)
(* ---------------------------------------------------------------------- *)
\* strip-comments: the comment lines go
NotComment(line) == line.t \notin {"cmtref", "comment"}
strip(shader) == SelectSeq(shader, NotComment)

\* GLSL.isUniformDefined: the source declares the uniform
isUniformDefined(name, src) ==
    \E i \in 1..Len(src) : src[i].t \in {"decl", "uniform"} /\ src[i].k = <<name>>

\* GLSL.isSymbolReferenced: the source uses the name as an identifier
isSymbolReferenced(name, src) ==
    \E i \in 1..Len(src) : src[i].t \in {"ref", "cmtref"} /\ src[i].k = <<name>>

\* GLSL.defineUniform: the declaration line synthesized for a uniform
defineUniform(u) == [t |-> "uniform", k |-> <<u.name>>, v |-> <<u.type>>]

RECURSIVE Injections(_, _)
Injections(list, src) ==
    IF list = <<>> THEN <<>>
    ELSE (IF ~isUniformDefined(Head(list).name, src) /\ isSymbolReferenced(Head(list).name, src)
          THEN <<defineUniform(Head(list))>> ELSE <<>>)
         \o Injections(Tail(list), src)

ensureUniformsNoStripMut(shader, uniforms) ==
    IF ~uniforms.present THEN shader
    ELSE Injections(uniforms.list, shader) \o shader
ensureUniforms(shader, uniforms) ==
    IF ~uniforms.present THEN shader
    ELSE Injections(uniforms.list, strip(shader)) \o shader

(* ---------------------------------------------------------------------- *)
(* The preprocessing of compile(), lines 93-164, with the text of both    *)
(* shaders after each step.  When the injection loop throws, threw is     *)
(* TRUE and vs/fs are the computed sources as the exception leaves them.  *)
(* ---------------------------------------------------------------------- *)
\* '// Program: ' + info + '\n'
ProgramComment(id, name) ==
    [t |-> "comment", k |-> <<"// Program: ">>,
     v |-> IF name # <<>> THEN name \o <<" / id ", ToString(id)>>
                          ELSE <<"id ", ToString(id)>>]

\* lines 152-164 in the order of the code: defines, then uniforms, then comment
AssembleUniformsFirstMut(body, define_str, uniforms, id, name) ==
    <<ProgramComment(id, name)>> \o define_str \o ensureUniforms(body, uniforms)
Assemble(body, define_str, uniforms, id, name) ==
    <<ProgramComment(id, name)>> \o ensureUniforms(define_str \o body, uniforms)

Preprocess(prog, global_defines, global_transforms) ==
    LET defines == buildDefineList(global_defines, prog.defines)
        transforms == buildShaderTransformList(global_transforms, prog.transforms)
        inj == InjectLoop([vs |-> prog.vertex_shader, fs |-> prog.fragment_shader,
                           defines |-> defines, threw |-> FALSE], transforms)
        clean_vs == CleanupPragmas(inj.vs)
        clean_fs == CleanupPragmas(inj.fs)
        define_str == buildDefineString(inj.defines)
    IN IF inj.threw
       THEN [threw |-> TRUE, vs |-> inj.vs, fs |-> inj.fs,
             injected_vs |-> inj.vs, injected_fs |-> inj.fs, defines |-> inj.defines,
             body_vs |-> inj.vs, body_fs |-> inj.fs]
       ELSE [threw |-> FALSE,
             vs |-> Assemble(clean_vs, define_str, prog.dependent_uniforms, prog.id, prog.name),
             fs |-> Assemble(clean_fs, define_str, prog.dependent_uniforms, prog.id, prog.name),
             injected_vs |-> inj.vs, injected_fs |-> inj.fs, defines |-> inj.defines,
             body_vs |-> clean_vs, body_fs |-> clean_fs]

(* ---------------------------------------------------------------------- *)
(* State                                                                  *)
(* ---------------------------------------------------------------------- *)
VARIABLES
    heap,                   \* the GLProgram objects constructed so far, by reference
    GLProgram_id,           \* GLProgram.id, the next program id
    GLProgram_programs,     \* GLProgram.programs: id -> reference
    GLProgram_current,      \* GLProgram.current: a reference or NoProgram
    GLProgram_defines,      \* GLProgram.defines
    GLProgram_transforms,   \* GLProgram.transforms
    gl_program,             \* graphics context: the program object in use, or Null
    gl_objects,             \* graphics context: the state of each program object
    last,                   \* the last call made on the module and what it did
    tile,                   \* the Tile object of the main thread
    geoms,                  \* the graphics geometry objects made for the tile
    scene,                  \* the scene's record of the tile and its builds
    channel,                \* the messages between the main thread and the worker
    worker,                 \* the worker's run of Tile.buildGeometry
    events,                 \* the events Map of each object extended by the event mixin
    registered              \* the on() calls in force and those ever made, in call order

progvars == <<heap, GLProgram_id, GLProgram_programs, GLProgram_current, GLProgram_defines,
              GLProgram_transforms, gl_program, gl_objects, last>>
\* the variables outside GLProgram: the tiles and the event mixin
tilevars == <<tile, geoms, scene, channel, worker, events, registered>>
vars == <<progvars, tilevars>>

\* no tile has been made and no object has been extended with the event mixin
NoTiles ==
    /\ tile = <<>> /\ geoms = <<>> /\ scene = <<>> /\ channel = <<>> /\ worker = <<>>
    /\ events = <<>> /\ registered = <<>>

\* names a shader can declare
UniformNames == {"u_a", "u_tex", "u_tex2"}
UniformOrder == <<"u_a", "u_tex", "u_tex2">>
AttribNames == {"a_position"}

\* handles of graphics program objects: one more than the programs can hold
Objects == 1..(MaxPrograms + 1)

\* a program object as linked: the uniforms and attributes that are active in
\* it and the value each active uniform holds (linking resets the values to 0)
LinkedObject(linked) ==
    [active |-> linked, value |-> [n \in linked \cap UniformNames |-> <<0>>]]

\* one call on the graphics context
GLCall(f, obj, name, method, vals) ==
    [f |-> f, obj |-> obj, name |-> name, method |-> method, vals |-> vals]

(* ---------------------------------------------------------------------- *)
(* The methods, as functions on m = [heap, current, gl_program,           *)
(* gl_objects, calls, threw]: the state a method reads and writes, the    *)
(* graphics calls it has issued and the exception it ended with ("" when   *)
(* it returned).                                                          *)
(* ---------------------------------------------------------------------- *)
Begin == [heap |-> heap, current |-> GLProgram_current, gl_program |-> gl_program,
          gl_objects |-> gl_objects, calls |-> <<>>, threw |-> ""]

\* gl.useProgram(obj)
gl_useProgram(m, obj) ==
    [m EXCEPT !.gl_program = obj,
              !.calls = Append(@, GLCall("useProgram", obj, "", "", <<>>))]

\* gl.getUniformLocation(obj, name): null when the uniform is not active
LocationOf(objects, obj, name) ==
    IF obj # Null /\ name \in objects[obj].active THEN <<obj, name>> ELSE NullLoc

gl_getUniformLocation(m, obj, name) ==
    [m EXCEPT !.calls = Append(@, GLCall("getUniformLocation", obj, name, "", <<>>))]

\* gl.uniform<method>(location, values): sets the uniform of the program in
\* use; an INVALID_OPERATION without effect when the location is not one of
\* the program in use
gl_uniform(m, method, location, values) ==
    LET logged == [m EXCEPT !.calls =
                      Append(@, GLCall(method, location[1], location[2], method, values))]
    IN IF m.gl_program # Null /\ location[1] = m.gl_program
       THEN [logged EXCEPT !.gl_objects[m.gl_program].value[location[2]] = values]
       ELSE logged

\* GLProgram.prototype.use
useAlwaysMut(m, p) ==
    [gl_useProgram(m, m.heap[p].program) EXCEPT !.current = p]
use(m, p) ==
    IF ~m.heap[p].compiled THEN m
    ELSE [(IF m.current # p THEN gl_useProgram(m, m.heap[p].program) ELSE m)
            EXCEPT !.current = p]

\* GLProgram.prototype.updateUniform
updateUniform(m, p, name) ==
    IF ~m.heap[p].compiled THEN m
    ELSE IF name \notin DOMAIN m.heap[p].uniforms THEN m
    ELSE IF m.heap[p].uniforms[name].location = NullLoc THEN m
    ELSE LET uniform == m.heap[p].uniforms[name]
         IN gl_uniform(use(m, p), uniform.method, uniform.location, uniform.values)

\* GLProgram.prototype.uniform, lines 342-347
uniformBody(m, p, method, name, values) ==
    LET old == m.heap[p].uniforms
        cached == name \in DOMAIN old /\ old[name].location # NullLoc
        m1 == IF cached THEN m ELSE gl_getUniformLocation(m, m.heap[p].program, name)
        entry == [name |-> name,
                  location |-> IF cached THEN old[name].location
                               ELSE LocationOf(m.gl_objects, m.heap[p].program, name),
                  method |-> method,
                  values |-> values]
        m2 == [m1 EXCEPT !.heap[p].uniforms =
                  [n \in DOMAIN old \cup {name} |-> IF n = name THEN entry ELSE old[n]]]
    IN updateUniform(m2, p, name)

\* GLProgram.prototype.uniform
uniformCachesUncompiledMut(m, p, method, name, values) ==
    LET old == m.heap[p].uniforms
        entry == [name |-> name, location |-> NullLoc, method |-> method, values |-> values]
    IN IF ~m.heap[p].compiled
       THEN [m EXCEPT !.heap[p].uniforms =
                [n \in DOMAIN old \cup {name} |-> IF n = name THEN entry ELSE old[n]]]
       ELSE uniformBody(m, p, method, name, values)
uniform(m, p, method, name, values) ==
    IF ~m.heap[p].compiled THEN m ELSE uniformBody(m, p, method, name, values)

\* GLProgram.prototype.refreshUniforms: the loop over this.uniforms
RECURSIVE RefreshLoop(_, _, _)
RefreshLoop(m, p, names) ==
    IF names = <<>> THEN m
    ELSE IF Head(names) \notin DOMAIN m.heap[p].uniforms THEN RefreshLoop(m, p, Tail(names))
    ELSE LET u == Head(names)
             m1 == gl_getUniformLocation(m, m.heap[p].program, u)
             m2 == [m1 EXCEPT !.heap[p].uniforms[u].location =
                       LocationOf(m.gl_objects, m.heap[p].program, u)]
         IN RefreshLoop(updateUniform(m2, p, u), p, Tail(names))

refreshUniforms(m, p) ==
    IF ~m.heap[p].compiled THEN m ELSE RefreshLoop(m, p, UniformOrder)

\* GLProgram.prototype.refreshAttributes
refreshAttributes(m, p) == [m EXCEPT !.heap[p].attribs = <<>>]

\* GLProgram.prototype.attribute
attribute(m, p, name) ==
    IF ~m.heap[p].compiled THEN m
    ELSE IF name \in DOMAIN m.heap[p].attribs THEN m
    ELSE LET obj == m.heap[p].program
             loc == IF name \in m.gl_objects[obj].active THEN 0 ELSE -1
             old == m.heap[p].attribs
         IN [m EXCEPT !.heap[p].attribs =
                       [n \in DOMAIN old \cup {name} |->
                           IF n = name THEN [name |-> name, location |-> loc] ELSE old[n]],
                      !.calls = Append(@, GLCall("getAttribLocation", obj, name, "", <<>>))]

\* GLProgram.prototype.setTextureUniform: GLTexture.textures[texture_name] is
\* found or created, bound to the texture unit, and the unit is the value
setTextureUniform(m, p, uniform_name, texture_name) ==
    LET unit == m.heap[p].texture_unit
        m1 == [m EXCEPT !.calls = Append(@, GLCall("bindTexture", unit, "", "", texture_name))]
        m2 == uniform(m1, p, "1i", uniform_name, <<unit>>)
    IN [m2 EXCEPT !.heap[p].texture_unit = unit + 1]

\* GLProgram.prototype.setUniforms: parsed is GLSL.parseUniforms(uniforms), a
\* list of [name, type, method, value]; texture_unit is -1 for no number
RECURSIVE SetEach(_, _, _)
SetEach(m, p, parsed) ==
    IF parsed = <<>> THEN m
    ELSE LET u == Head(parsed)
         IN SetEach(IF u.type = "sampler2D"
                    THEN setTextureUniform(m, p, u.name, u.value)
                    ELSE uniform(m, p, u.method, u.name, u.value),
                    p, Tail(parsed))

setUniformsKeepsUnitMut(m, p, parsed, texture_unit) ==
    IF ~m.heap[p].compiled THEN m
    ELSE SetEach([m EXCEPT !.heap[p].texture_unit =
                      IF texture_unit >= 0 THEN texture_unit ELSE IF @ >= 0 THEN @ ELSE 0],
                 p, parsed)
setUniforms(m, p, parsed, texture_unit) ==
    IF ~m.heap[p].compiled THEN m
    ELSE SetEach([m EXCEPT !.heap[p].texture_unit =
                      IF texture_unit >= 0 THEN texture_unit ELSE 0],
                 p, parsed)

\* the program object GL.updateProgram hands back: the one it was given, or a
\* new one (the lowest handle nothing refers to) when it was given null
FreshObject(m) ==
    CHOOSE o \in Objects :
        LET used(x) == x = m.gl_program \/ \E q \in 1..Len(m.heap) : m.heap[q].program = x
        IN ~used(o) /\ \A o2 \in 1..(o-1) : used(o2)

\* compile(), the catch block, lines 172-177
compileFailedStaysCompilingMut(m, p) ==
    [m EXCEPT !.heap[p].program = Null,
              !.heap[p].compiled = FALSE,
              !.threw = "compile error"]
compileFailed(m, p) ==
    [m EXCEPT !.heap[p].program = Null,
              !.heap[p].compiled = FALSE,
              !.heap[p].compiling = FALSE,
              !.threw = "compile error"]

\* compile() from line 90 on.  ok and linked are the graphics driver's answer
\* to GL.updateProgram: whether the sources compile and link, and the
\* uniforms and attributes active in the linked program.
compileBodyAccumulatesMut(m, p, ok, linked, global_defines, global_transforms) ==
    LET prog == m.heap[p]
        from == IF prog.computed_vertex_shader = <<>> THEN prog
                ELSE [prog EXCEPT !.vertex_shader = prog.computed_vertex_shader,
                                  !.fragment_shader = prog.computed_fragment_shader]
        pre == Preprocess(from, global_defines, global_transforms)
        m1 == [m EXCEPT !.heap[p].compiling = TRUE,
                        !.heap[p].compiled = FALSE,
                        !.heap[p].computed_vertex_shader = pre.vs,
                        !.heap[p].computed_fragment_shader = pre.fs]
        m2 == [m1 EXCEPT !.calls =
                  Append(@, GLCall("updateProgram", m.heap[p].program, "", "", <<>>))]
        obj == IF m.heap[p].program # Null THEN m.heap[p].program ELSE FreshObject(m)
        m3 == [m2 EXCEPT !.gl_objects[obj] = LinkedObject(linked),
                         !.heap[p].program = obj,
                         !.heap[p].compiled = TRUE,
                         !.heap[p].compiling = FALSE]
    IN IF pre.threw THEN [m1 EXCEPT !.threw = "TypeError"]
       ELSE IF ~ok THEN compileFailed(m2, p)
       ELSE refreshAttributes(refreshUniforms(use(m3, p), p), p)
compileBody(m, p, ok, linked, global_defines, global_transforms) ==
    LET pre == Preprocess(m.heap[p], global_defines, global_transforms)
        m1 == [m EXCEPT !.heap[p].compiling = TRUE,
                        !.heap[p].compiled = FALSE,
                        !.heap[p].computed_vertex_shader = pre.vs,
                        !.heap[p].computed_fragment_shader = pre.fs]
        m2 == [m1 EXCEPT !.calls =
                  Append(@, GLCall("updateProgram", m.heap[p].program, "", "", <<>>))]
        obj == IF m.heap[p].program # Null THEN m.heap[p].program ELSE FreshObject(m)
        m3 == [m2 EXCEPT !.gl_objects[obj] = LinkedObject(linked),
                         !.heap[p].program = obj,
                         !.heap[p].compiled = TRUE,
                         !.heap[p].compiling = FALSE]
    IN IF pre.threw THEN [m1 EXCEPT !.threw = "TypeError"]
       ELSE IF ~ok THEN compileFailed(m2, p)
       ELSE refreshAttributes(refreshUniforms(use(m3, p), p), p)

\* GLProgram.prototype.compile
compileNoGuardMut(m, p, ok, linked, global_defines, global_transforms) ==
    compileBody(m, p, ok, linked, global_defines, global_transforms)
compile(m, p, ok, linked, global_defines, global_transforms) ==
    IF m.heap[p].compiling THEN [m EXCEPT !.threw = "already compiling"]
    ELSE compileBody(m, p, ok, linked, global_defines, global_transforms)

\* GLProgram.prototype.destroy, but for the registry
destroy(m, p) ==
    LET m1 == gl_useProgram(m, Null)
        m2 == [m1 EXCEPT !.calls =
                  Append(@, GLCall("deleteProgram", m.heap[p].program, "", "", <<>>))]
    IN [m2 EXCEPT !.heap[p].program = Null,
                  !.heap[p].uniforms = <<>>,
                  !.heap[p].attribs = <<>>,
                  !.heap[p].compiled = FALSE]

\* a GLProgram as the constructor sets it up before it calls compile()
NewProgram(id, vertex_shader, fragment_shader, options) ==
    [program |-> Null, compiled |-> FALSE, compiling |-> FALSE,
     defines |-> options.defines, transforms |-> options.transforms,
     dependent_uniforms |-> options.uniforms,
     uniforms |-> <<>>, attribs |-> <<>>,
     vertex_shader |-> vertex_shader, fragment_shader |-> fragment_shader,
     id |-> id, name |-> options.name,
     computed_vertex_shader |-> <<>>, computed_fragment_shader |-> <<>>,
     texture_unit |-> -1]

(* ---------------------------------------------------------------------- *)
(* Actions: one call on the module each                                   *)
(* ---------------------------------------------------------------------- *)
\* the program objects something still refers to (a GLProgram, or the context
\* as its program in use); an object nothing refers to, deleted or dropped, can
\* no longer be observed and is kept in the state of a fresh handle
Reachable(m) ==
    [o \in Objects |->
        IF o = m.gl_program \/ \E q \in 1..Len(m.heap) : m.heap[q].program = o
        THEN m.gl_objects[o] ELSE LinkedObject({})]

\* what a call leaves behind: the state its method computed, and the record
\* of the call (its name, receiver, exception, graphics calls and arguments)
Return(m, op, p, name, values) ==
    /\ heap' = m.heap
    /\ GLProgram_current' = m.current
    /\ gl_program' = m.gl_program
    /\ gl_objects' = Reachable(m)
    /\ last' = [op |-> op, p |-> p, threw |-> m.threw, calls |-> m.calls,
                name |-> name, values |-> values]
    /\ UNCHANGED tilevars

Programs == 1..Len(heap)

\* new GLProgram(gl, vertex_shader, fragment_shader, options)
Construct(vertex_shader, fragment_shader, options, ok, linked) ==
    /\ Len(heap) < MaxPrograms
    /\ LET p == Len(heap) + 1
           id == GLProgram_id
           m0 == [Begin EXCEPT !.heap =
                     Append(heap, NewProgram(id, vertex_shader, fragment_shader, options))]
       IN /\ Return(compile(m0, p, ok, linked, GLProgram_defines, GLProgram_transforms),
                    "new", p, "", <<>>)
          /\ GLProgram_id' = id + 1
          /\ GLProgram_programs' =
                [i \in DOMAIN GLProgram_programs \cup {id} |->
                    IF i = id THEN p ELSE GLProgram_programs[i]]
    /\ UNCHANGED <<GLProgram_defines, GLProgram_transforms>>

Compile(p, ok, linked) ==
    /\ Return(compile(Begin, p, ok, linked, GLProgram_defines, GLProgram_transforms),
              "compile", p, "", <<>>)
    /\ UNCHANGED <<GLProgram_id, GLProgram_programs, GLProgram_defines, GLProgram_transforms>>

\* destroy() that empties the registry instead of deleting its own entry
DestroyForgetsAllMut(p) ==
    /\ Return(destroy(Begin, p), "destroy", p, "", <<>>)
    /\ GLProgram_programs' = <<>>
    /\ UNCHANGED <<GLProgram_id, GLProgram_defines, GLProgram_transforms>>

Destroy(p) ==
    /\ Return(destroy(Begin, p), "destroy", p, "", <<>>)
    /\ GLProgram_programs' =
          [i \in DOMAIN GLProgram_programs \ {heap[p].id} |-> GLProgram_programs[i]]
    /\ UNCHANGED <<GLProgram_id, GLProgram_defines, GLProgram_transforms>>

Use(p) ==
    /\ Return(use(Begin, p), "use", p, "", <<>>)
    /\ UNCHANGED <<GLProgram_id, GLProgram_programs, GLProgram_defines, GLProgram_transforms>>

Uniform(p, method, name, values) ==
    /\ Return(uniform(Begin, p, method, name, values), "uniform", p, name, values)
    /\ UNCHANGED <<GLProgram_id, GLProgram_programs, GLProgram_defines, GLProgram_transforms>>

UpdateUniform(p, name) ==
    /\ Return(updateUniform(Begin, p, name), "updateUniform", p, name, <<>>)
    /\ UNCHANGED <<GLProgram_id, GLProgram_programs, GLProgram_defines, GLProgram_transforms>>

RefreshUniforms(p) ==
    /\ Return(refreshUniforms(Begin, p), "refreshUniforms", p, "", <<>>)
    /\ UNCHANGED <<GLProgram_id, GLProgram_programs, GLProgram_defines, GLProgram_transforms>>

Attribute(p, name) ==
    /\ Return(attribute(Begin, p, name), "attribute", p, name, <<>>)
    /\ UNCHANGED <<GLProgram_id, GLProgram_programs, GLProgram_defines, GLProgram_transforms>>

SetUniforms(p, parsed, texture_unit) ==
    /\ Return(setUniforms(Begin, p, parsed, texture_unit), "setUniforms", p,
              IF parsed = <<>> THEN "" ELSE parsed[1].name,
              IF parsed = <<>> THEN <<>> ELSE parsed[1].value)
    /\ UNCHANGED <<GLProgram_id, GLProgram_programs, GLProgram_defines, GLProgram_transforms>>

\* program.setTextureUniform(uniform_name, texture_name), called directly
SetTextureUniform(p, uniform_name, texture_name) ==
    /\ Return(setTextureUniform(Begin, p, uniform_name, texture_name),
              "setTextureUniform", p, uniform_name, <<>>)
    /\ UNCHANGED <<GLProgram_id, GLProgram_programs, GLProgram_defines, GLProgram_transforms>>

\* GLProgram.addTransform(key, ...transforms)
AddTransform(key, transforms) ==
    /\ GLProgram_transforms' =
          IF HasKey(GLProgram_transforms, key)
          THEN [GLProgram_transforms EXCEPT
                   ![KeyIndex(GLProgram_transforms, key)].val = @ \o transforms]
          ELSE Append(GLProgram_transforms, [key |-> key, arr |-> TRUE, val |-> transforms])
    /\ \A i \in 1..Len(GLProgram_transforms') : Len(GLProgram_transforms'[i].val) <= MaxSources
    /\ last' = [op |-> "addTransform", p |-> NoProgram, threw |-> "", calls |-> <<>>,
                name |-> "", values |-> <<>>]
    /\ UNCHANGED <<heap, GLProgram_id, GLProgram_programs, GLProgram_current,
                   GLProgram_defines, gl_program, gl_objects>>
    /\ UNCHANGED tilevars

\* GLProgram.removeTransform(key)
RemoveTransform(key) ==
    /\ GLProgram_transforms' =
          IF HasKey(GLProgram_transforms, key)
          THEN [GLProgram_transforms EXCEPT
                   ![KeyIndex(GLProgram_transforms, key)].val = <<>>]
          ELSE Append(GLProgram_transforms, [key |-> key, arr |-> TRUE, val |-> <<>>])
    /\ last' = [op |-> "removeTransform", p |-> NoProgram, threw |-> "", calls |-> <<>>,
                name |-> "", values |-> <<>>]
    /\ UNCHANGED <<heap, GLProgram_id, GLProgram_programs, GLProgram_current,
                   GLProgram_defines, gl_program, gl_objects>>
    /\ UNCHANGED tilevars

(* ---------------------------------------------------------------------- *)
(* The module as loaded, lines 11-12 and 69-73                            *)
(* ---------------------------------------------------------------------- *)
ProgramsAsLoaded ==
    /\ heap = <<>>
    /\ GLProgram_id = 0
    /\ GLProgram_programs = <<>>
    /\ GLProgram_current = NoProgram
    /\ GLProgram_defines = <<>>
    /\ GLProgram_transforms = <<>>
    /\ gl_program = Null
    /\ gl_objects = [o \in Objects |-> LinkedObject({})]
    /\ last = [op |-> "load", p |-> NoProgram, threw |-> "", calls |-> <<>>,
                name |-> "", values |-> <<>>]

Init == ProgramsAsLoaded /\ NoTiles

(* ---------------------------------------------------------------------- *)
(* Spec: the life of programs.  Small shader templates, every method.     *)
(* ---------------------------------------------------------------------- *)
KeyA == <<"a">>
KeyB == <<"b">>
KeyAB == <<"a", " ", "b">>

NoOptions == [defines |-> <<>>, transforms |-> <<>>,
              uniforms |-> [present |-> FALSE, list |-> <<>>], name |-> <<>>]

LifeVertexShaders == {<<PragmaLine(KeyA), CodeLine("main")>>}
LifeFragmentShader == <<CodeLine("main")>>
LifeSources == {<<CodeLine("x")>>}
LifeLinked == {{}, {"u_a", "a_position"}}
LifeValues == {<<1>>, <<2>>}
LifeUniformMaps ==
    {<<[name |-> "u_a", type |-> "float", method |-> "1f", value |-> <<2>>]>>}

\* The first program is the subject: it takes every call, with every answer
\* of the graphics driver.  The programs constructed after it are its
\* environment: they are built from a template without markers, link with no
\* active uniform, and reach the state they share with the subject
\* (GLProgram.current, the program in use) through their construction, use()
\* and destroy().
Subjects == Programs \cap {1}

Next ==
    \/ \E vs \in LifeVertexShaders, ok \in BOOLEAN, linked \in LifeLinked :
          /\ heap # <<>> => (ok /\ linked = {})
          /\ Construct(IF heap = <<>> THEN vs ELSE LifeFragmentShader,
                       LifeFragmentShader, NoOptions, ok, linked)
    \/ \E p \in Subjects, ok \in BOOLEAN, linked \in LifeLinked : Compile(p, ok, linked)
    \/ \E p \in Programs : Destroy(p)
    \/ \E p \in Programs : Use(p)
    \/ \E p \in Subjects, values \in LifeValues : Uniform(p, "1f", "u_a", values)
    \/ \E p \in Subjects : UpdateUniform(p, "u_a")
    \/ \E p \in Subjects : RefreshUniforms(p)
    \/ \E p \in Subjects, name \in AttribNames : Attribute(p, name)
    \/ \E p \in Subjects, parsed \in LifeUniformMaps : SetUniforms(p, parsed, -1)
    \/ \E transforms \in {<<s>> : s \in LifeSources} : AddTransform(KeyA, transforms)
    \/ RemoveTransform(KeyA)

Spec == Init /\ [][Next]_vars

(* ---------------------------------------------------------------------- *)
(* SpecPre: the preprocessing of compile().  The global transform table   *)
(* is built with addTransform and removeTransform; then one program is    *)
(* constructed with templates, transforms, defines and dependent uniforms *)
(* drawn from the sets below, which compiles it, and it is recompiled.    *)
(* The driver accepts every source: its verdict does not enter the text.  *)
(* ---------------------------------------------------------------------- *)
SrcX == <<CodeLine("x")>>
\* a transform source that itself holds an injection marker
SrcMarkerB == <<CodeLine("y"), PragmaLine(KeyB)>>

PreLines == {PragmaLine(KeyA), PragmaLine(KeyB), PragmaLine(KeyAB),
             RefLine("u_a"), DeclLine("u_a"), CodeLine("main")}

RECURSIVE SeqsUpTo(_, _)
SeqsUpTo(S, n) ==
    IF n = 0 THEN {<<>>}
    ELSE LET shorter == SeqsUpTo(S, n - 1)
         IN shorter \cup {Append(q, x) : q \in shorter, x \in S}

PreVertexShaders == SeqsUpTo(PreLines, MaxLines)
PreFragmentShaders == {<<CodeLine("main")>>, <<PragmaLine(KeyA), RefLine("u_a")>>}

PreGlobalDefines ==
    {<<>>, <<[key |-> <<"F">>, val |-> DefTrue], [key |-> <<"G">>, val |-> DefInt("2")]>>}

PreOptions ==
    {NoOptions,
     [defines |-> <<[key |-> <<"G">>, val |-> DefOther("0.5")],
                    [key |-> <<"F">>, val |-> DefFalse]>>,
      transforms |-> <<[key |-> KeyA, arr |-> FALSE, val |-> SrcX]>>,
      uniforms |-> [present |-> TRUE, list |-> <<[name |-> "u_a", type |-> "float"]>>],
      name |-> <<"dots">>],
     [defines |-> <<[key |-> <<"H">>, val |-> DefTrue]>>,
      transforms |-> <<[key |-> KeyAB, arr |-> TRUE, val |-> <<SrcX>>],
                       [key |-> KeyA, arr |-> TRUE, val |-> <<SrcMarkerB, SrcX>>]>>,
      uniforms |-> [present |-> TRUE, list |-> <<>>],
      name |-> <<>>]}

InitPre ==
    /\ heap = <<>>
    /\ GLProgram_id = 0
    /\ GLProgram_programs = <<>>
    /\ GLProgram_current = NoProgram
    /\ GLProgram_defines \in PreGlobalDefines
    /\ GLProgram_transforms = <<>>
    /\ gl_program = Null
    /\ gl_objects = [o \in Objects |-> LinkedObject({})]
    /\ last = [op |-> "load", p |-> NoProgram, threw |-> "", calls |-> <<>>,
                name |-> "", values |-> <<>>]
    /\ NoTiles

NextPre ==
    \/ \E vs \in PreVertexShaders, fs \in PreFragmentShaders, options \in PreOptions :
          heap = <<>> /\ Construct(vs, fs, options, TRUE, {})
    \/ \E p \in Programs : Compile(p, TRUE, {})
    \/ \E key \in {KeyA, KeyB}, transforms \in {<<SrcX>>, <<SrcMarkerB>>} :
          heap = <<>> /\ AddTransform(key, transforms)
    \/ \E key \in {KeyA, KeyB} : heap = <<>> /\ RemoveTransform(key)

SpecPre == InitPre /\ [][NextPre]_vars

(* ---------------------------------------------------------------------- *)
(* Properties of the life of a program (Spec)                             *)
(* ---------------------------------------------------------------------- *)
\* the step is a call of compile() on p, alone or from the constructor
CompileCalled(p) == last'.op \in {"compile", "new"} /\ last'.p = p

\* the graphics calls of the last call that set a uniform
IsUniformCall(c) == c.f \in {"1f", "1i"}

\* C1: compile() on a program whose compiling flag is set throws at once and
\* changes nothing: no field of the program, no graphics call, no other state.
C1_ReentrantCompileRejected ==
    [][\A p \in Programs :
          (last'.op = "compile" /\ last'.p = p /\ heap[p].compiling)
          => /\ last'.threw = "already compiling"
             /\ last'.calls = <<>>
             /\ heap' = heap
             /\ UNCHANGED <<GLProgram_current, GLProgram_programs, gl_program, gl_objects>>
      ]_vars

\* a compile() has just been rejected by the reentrancy guard
C1_Witness == last.op = "compile" /\ last.threw = "already compiling"

\* C2 as stated: a value given to uniform() while the program is uncompiled
\* is still cached (to be pushed by the next successful compile).
C2_Original ==
    [][\A p \in Programs :
          (last'.op = "uniform" /\ last'.p = p /\ ~heap[p].compiled)
          => /\ last'.threw = ""
             /\ last'.calls = <<>>
             /\ last'.name \in DOMAIN heap'[p].uniforms
             /\ heap'[p].uniforms[last'.name].values = last'.values
      ]_vars

\* C2 as amended: uniform() and setUniforms() on an uncompiled program raise
\* no error, make no graphics call and leave the uniform cache as it was (the
\* value is dropped); a successful compile() pushes, for a uniform name, only
\* the values its cache held before that compile.
C2_UncompiledUniformDropped ==
    [][\A p \in 1..Len(heap') :
          /\ (last'.op \in {"uniform", "setUniforms"} /\ last'.p = p /\ ~heap[p].compiled)
             => /\ last'.threw = ""
                /\ last'.calls = <<>>
                /\ heap'[p].uniforms = heap[p].uniforms
                /\ gl_objects' = gl_objects
          /\ (CompileCalled(p) /\ last'.threw = "")
             => \A i \in 1..Len(last'.calls) :
                   IsUniformCall(last'.calls[i])
                   => /\ p \in Programs
                      /\ last'.calls[i].name \in DOMAIN heap[p].uniforms
                      /\ last'.calls[i].vals = heap[p].uniforms[last'.calls[i].name].values
      ]_vars

\* uniform() has just been called on an uncompiled program whose cache does
\* not hold the name
C2_Witness ==
    /\ last.op = "uniform"
    /\ ~heap[last.p].compiled
    /\ last.name \notin DOMAIN heap[last.p].uniforms

\* C3 as stated: after a successful compile() the program is the one in use
\* in the graphics context, every cached uniform has the location the new
\* program object gives it and, where that is not null, the context holds its
\* cached values, and the attribute cache is empty.
C3_Original ==
    \A p \in Programs :
        (last.op \in {"compile", "new"} /\ last.p = p /\ last.threw = "")
        => /\ GLProgram_current = p
           /\ gl_program = heap[p].program
           /\ \A n \in DOMAIN heap[p].uniforms :
                 /\ heap[p].uniforms[n].location = LocationOf(gl_objects, heap[p].program, n)
                 /\ heap[p].uniforms[n].location # NullLoc
                    => gl_objects[heap[p].program].value[n] = heap[p].uniforms[n].values
           /\ heap[p].attribs = <<>>

\* C4: when the compile/link step fails, compile() throws a compile error and
\* leaves program = null, compiled = false, compiling = false; it binds
\* nothing, pushes no uniform and keeps the uniform and attribute caches; a
\* compile() that follows is not rejected by the reentrancy guard.
C4_FailedCompile ==
    [][\A p \in 1..Len(heap') :
          /\ (CompileCalled(p) /\ last'.threw = "compile error")
             => /\ heap'[p].program = Null
                /\ ~heap'[p].compiled
                /\ ~heap'[p].compiling
                /\ \A i \in 1..Len(last'.calls) : last'.calls[i].f = "updateProgram"
                /\ UNCHANGED <<GLProgram_current, gl_program>>
                /\ heap'[p].uniforms = IF p \in Programs THEN heap[p].uniforms ELSE <<>>
                /\ heap'[p].attribs = IF p \in Programs THEN heap[p].attribs ELSE <<>>
          /\ (last.threw = "compile error" /\ last.p = p /\ last'.op = "compile" /\ last'.p = p)
             => last'.threw # "already compiling"
      ]_vars

\* a recompile has just failed in the compile/link step with a uniform cached
C4_Witness ==
    /\ last.op = "compile"
    /\ last.threw = "compile error"
    /\ heap[last.p].uniforms # <<>>

\* C5: on an uncompiled program use(), setUniforms(), uniform(),
\* updateUniform(), refreshUniforms() and attribute() return without throwing,
\* make no graphics call and change nothing, GLProgram.current included.
C5_UncompiledNoOps ==
    [][\A p \in Programs :
          (/\ last'.op \in {"use", "setUniforms", "uniform", "updateUniform",
                            "refreshUniforms", "attribute"}
           /\ last'.p = p
           /\ ~heap[p].compiled)
          => /\ last'.threw = ""
             /\ last'.calls = <<>>
             /\ UNCHANGED <<heap, GLProgram_current, gl_program, gl_objects>>
      ]_vars

\* use() has just been called on a destroyed program while another call had
\* left it as GLProgram.current
C5_Witness ==
    /\ last.op = "use"
    /\ ~heap[last.p].compiled
    /\ heap[last.p].program = Null
    /\ GLProgram_current = last.p

(* ---------------------------------------------------------------------- *)
(* Properties of the preprocessing (SpecPre)                              *)
(* ---------------------------------------------------------------------- *)
\* the last call was a compile() of p that ran its preprocessing to the end
Preprocessed(p) == last.op \in {"compile", "new"} /\ last.p = p /\ last.threw = ""

\* the last call was a compile() of p that got past the reentrancy guard
CompileRan(p) == last.op \in {"compile", "new"} /\ last.p = p /\ last.threw # "already compiling"

Range(shader) == {shader[i] : i \in 1..Len(shader)}

Count(shader, line) == Cardinality({i \in 1..Len(shader) : shader[i] = line})

\* the merged transform list compile() works from
Merged(p) == buildShaderTransformList(GLProgram_transforms, heap[p].transforms)

\* the key has at least one transform source registered
Registered(p, key) ==
    /\ HasKey(Merged(p), key)
    /\ Merged(p)[KeyIndex(Merged(p), key)].list # <<>>

SourceOf(p, key) == Join(Merged(p)[KeyIndex(Merged(p), key)].list)

\* no transform source of the merged list holds a marker line
SourcesHoldNoMarker(p) ==
    \A i \in 1..Len(Merged(p)) : \A j \in 1..Len(Merged(p)[i].list) :
        \A l \in Range(Merged(p)[i].list[j]) : l.t # "pragma"

\* the define TANGRAM_TRANSFORM_<KEY in upper case>, set to true
TransformDefineLine(key) ==
    [t |-> "define", k |-> <<"TANGRAM_TRANSFORM_">> \o toUpperCase(key), v |-> <<>>]

WordKeys == {KeyA, KeyB}

\* C6 as stated: after the preprocessing of compile() neither computed shader
\* holds a line of the form '#pragma tangram: <key>'.
C6_Original ==
    \A p \in Programs :
        Preprocessed(p)
        => /\ \A l \in Range(heap[p].computed_vertex_shader) : l.t # "pragma"
           /\ \A l \in Range(heap[p].computed_fragment_shader) : l.t # "pragma"

\* C7 as stated, for keys made of word characters: when compile() runs, a key
\* with a registered transform whose marker is in a template has the define
\* TANGRAM_TRANSFORM_<KEY> in both computed shaders, and the lines of its
\* joined sources in each shader whose template held the marker; a key whose
\* marker is in neither template nor in any transform source gets no define.
C7_Original ==
    \A p \in Programs : \A key \in WordKeys :
        (CompileRan(p) /\ Registered(p, key))
        => LET vs == heap[p].vertex_shader
               fs == heap[p].fragment_shader
               cvs == heap[p].computed_vertex_shader
               cfs == heap[p].computed_fragment_shader
               src == {l \in Range(SourceOf(p, key)) : l.t # "pragma"}
           IN /\ (Match(vs, key) # 0 \/ Match(fs, key) # 0)
                 => /\ TransformDefineLine(key) \in Range(cvs)
                    /\ TransformDefineLine(key) \in Range(cfs)
                    /\ Match(vs, key) # 0 => src \subseteq Range(cvs)
                    /\ Match(fs, key) # 0 => src \subseteq Range(cfs)
              /\ (Match(vs, key) = 0 /\ Match(fs, key) = 0 /\ SourcesHoldNoMarker(p))
                 => /\ TransformDefineLine(key) \notin Range(cvs)
                    /\ TransformDefineLine(key) \notin Range(cfs)

\* C8 as stated, for keys made of word characters and sources that hold no
\* marker: every marker line of a key with a registered transform is replaced
\* by the transform source, so a line of the source occurs in the computed
\* shader at least once for each marker line of the template.
C8_Original ==
    \A p \in Programs : \A key \in WordKeys :
        (Preprocessed(p) /\ Registered(p, key) /\ SourcesHoldNoMarker(p))
        => /\ \A l \in Range(SourceOf(p, key)) :
                 Count(heap[p].computed_vertex_shader, l)
                    >= Count(heap[p].vertex_shader, PragmaLine(key))
           /\ \A l \in Range(SourceOf(p, key)) :
                 Count(heap[p].computed_fragment_shader, l)
                    >= Count(heap[p].fragment_shader, PragmaLine(key))

\* C9 as stated: after removeTransform(key) has left the global list of key
\* empty, a compile() of a program with no transform of its own for key and
\* with the marker of key in a template does not throw, leaves no marker of
\* key and sets no TANGRAM_TRANSFORM define for key.
C9_Original ==
    \A p \in Programs : \A key \in WordKeys :
        (/\ CompileRan(p)
         /\ HasKey(GLProgram_transforms, key)
         /\ GLProgram_transforms[KeyIndex(GLProgram_transforms, key)].val = <<>>
         /\ ~HasKey(heap[p].transforms, key)
         /\ (Match(heap[p].vertex_shader, key) # 0 \/ Match(heap[p].fragment_shader, key) # 0))
        => /\ last.threw = ""
           /\ PragmaLine(key) \notin Range(heap[p].computed_vertex_shader)
           /\ PragmaLine(key) \notin Range(heap[p].computed_fragment_shader)
           /\ TransformDefineLine(key) \notin Range(heap[p].computed_vertex_shader)
           /\ TransformDefineLine(key) \notin Range(heap[p].computed_fragment_shader)

\* the part of a computed shader a line belongs to: 1 the identifying
\* comment, 2 a synthesized uniform declaration, 3 a #define, 4 the body
Part(line) ==
    CASE line.t = "comment" -> 1
      [] line.t = "uniform" -> 2
      [] line.t = "define" -> 3
      [] OTHER -> 4

IsBody(line) == Part(line) = 4

\* the defines of the program and the global ones, the program's value winning
MergedDefineLines(p) ==
    LET own == heap[p].defines
        glob == GLProgram_defines
        Value(key) == IF HasKey(own, key) THEN own[KeyIndex(own, key)].val
                      ELSE glob[KeyIndex(glob, key)].val
    IN {DefineLine([key |-> key, val |-> Value(key)]) :
           key \in {k \in Keys(own) \cup Keys(glob) : Value(k) # DefFalse}}

IsTransformDefine(line) == line.t = "define" /\ line.k[1] = "TANGRAM_TRANSFORM_"

\* the layout of one computed shader of p, made from the template shader
LaidOut(p, computed, template, injected) ==
    LET defs == {l \in Range(computed) : l.t = "define"}
        list == heap[p].dependent_uniforms.list
    IN /\ computed[1] = ProgramComment(heap[p].id, heap[p].name)
       /\ \A i \in 1..(Len(computed) - 1) : Part(computed[i]) <= Part(computed[i + 1])
       /\ Count(computed, computed[1]) = 1
       /\ \A l \in Range(computed) :
             l.t = "uniform" => \E i \in 1..Len(list) : l = defineUniform(list[i])
       /\ \A i \in 1..Len(list) :
             (RefLine(list[i].name) \in Range(computed)
                 /\ DeclLine(list[i].name) \notin Range(computed))
             => defineUniform(list[i]) \in Range(computed)
       /\ {l \in defs : ~IsTransformDefine(l)} = MergedDefineLines(p)
       /\ \A l \in defs :
             IsTransformDefine(l)
             => \E i \in 1..Len(Merged(p)) :
                   /\ l = [t |-> "define", v |-> <<>>,
                           k |-> TransformDefineName(Merged(p)[i].key)]
                   /\ Merged(p)[i].list # <<>>
       /\ \A i \in 1..Len(Merged(p)) :
             Match(template, Merged(p)[i].key) # 0
             => [t |-> "define", v |-> <<>>,
                 k |-> TransformDefineName(Merged(p)[i].key)] \in defs
       /\ SelectSeq(computed, IsBody) = CleanupPragmas(injected)

\* C10: each final shader source is, from the top, the '// Program:' comment
\* (name and id, or id alone), the synthesized uniform declarations, the
\* #define lines (the merged defines that are not false, the program's value
\* winning on a shared key, and the TANGRAM_TRANSFORM defines), then the
\* template body with the injections applied and the markers stripped.
C10_Layout ==
    \A p \in Programs :
        Preprocessed(p)
        => LET inj == InjectLoop([vs |-> heap[p].vertex_shader,
                                  fs |-> heap[p].fragment_shader,
                                  defines |-> <<>>, threw |-> FALSE], Merged(p))
           IN /\ LaidOut(p, heap[p].computed_vertex_shader, heap[p].vertex_shader, inj.vs)
              /\ LaidOut(p, heap[p].computed_fragment_shader, heap[p].fragment_shader, inj.fs)

\* a named program has just compiled to a vertex shader with all four parts,
\* with a global define overridden and another switched off by the program
C10_Witness ==
    \E p \in Programs :
        /\ Preprocessed(p)
        /\ heap[p].name # <<>>
        /\ {Part(l) : l \in Range(heap[p].computed_vertex_shader)} = 1..4
        /\ \E l \in Range(heap[p].computed_vertex_shader) : IsTransformDefine(l)
        /\ HasKey(GLProgram_defines, <<"G">>)
        /\ [t |-> "define", k |-> <<"G">>, v |-> <<"0.5">>]
              \in Range(heap[p].computed_vertex_shader)
        /\ \A l \in Range(heap[p].computed_vertex_shader) : l.k # <<"F">>

(* ---------------------------------------------------------------------- *)
(* SpecUni: the uniform declarations of compile().  One program is built  *)
(* from templates that reference, declare or only mention in a comment    *)
(* the uniforms it depends on, and is compiled again.                     *)
(* ---------------------------------------------------------------------- *)
UniLines == {RefLine("u_a"), DeclLine("u_a"), CommentRefLine("u_a"),
             RefLine("u_tex"), CodeLine("main")}

UniVertexShaders == SeqsUpTo(UniLines, MaxLines)
UniFragmentShaders == {<<CodeLine("main")>>, <<RefLine("u_a")>>,
                       <<DeclLine("u_a"), RefLine("u_a")>>,
                       <<CommentRefLine("u_a"), RefLine("u_tex")>>}

UniOptions ==
    {NoOptions,
     [NoOptions EXCEPT !.uniforms = [present |-> TRUE, list |-> <<>>]],
     [NoOptions EXCEPT !.uniforms =
         [present |-> TRUE, list |-> <<[name |-> "u_a", type |-> "float"],
                                      [name |-> "u_tex", type |-> "sampler2D"]>>]]}

NextUni ==
    \/ \E vs \in UniVertexShaders, fs \in UniFragmentShaders, options \in UniOptions :
          heap = <<>> /\ Construct(vs, fs, options, TRUE, {})
    \/ \E p \in Programs : Compile(p, TRUE, {})

SpecUni == Init /\ [][NextUni]_vars

\* the declarations of one computed shader are those of the names of list
\* that the rest of the shader references outside comments and does not
\* declare, one for each, placed right after the identifying comment
DeclaredAsNeeded(computed, list) ==
    LET Referenced(name) == RefLine(name) \in Range(computed)
        Declared(name) == DeclLine(name) \in Range(computed)
        n == Cardinality({i \in 1..Len(computed) : computed[i].t = "uniform"})
    IN /\ \A i \in 1..Len(list) :
             Count(computed, defineUniform(list[i]))
                = IF Referenced(list[i].name) /\ ~Declared(list[i].name) THEN 1 ELSE 0
       /\ \A l \in Range(computed) :
             l.t = "uniform" => \E i \in 1..Len(list) : l = defineUniform(list[i])
       /\ \A i \in 1..Len(computed) : computed[i].t = "uniform" <=> i \in 2..(n + 1)

\* C11: for every dependent uniform and for each shader on its own, one
\* declaration is prepended when the shader references the name outside
\* comments and does not declare it, and none otherwise; without dependent
\* uniforms no declaration is prepended to either shader.
C11_UniformsPerShader ==
    \A p \in Programs :
        Preprocessed(p)
        => LET list == IF heap[p].dependent_uniforms.present
                       THEN heap[p].dependent_uniforms.list ELSE <<>>
           IN /\ DeclaredAsNeeded(heap[p].computed_vertex_shader, list)
              /\ DeclaredAsNeeded(heap[p].computed_fragment_shader, list)

\* a program has compiled whose fragment shader got the declaration of u_a
\* and whose vertex shader, which names u_a only in a comment, got none
C11_Witness ==
    \E p \in Programs :
        /\ Preprocessed(p)
        /\ [t |-> "uniform", k |-> <<"u_a">>, v |-> <<"float">>]
              \in Range(heap[p].computed_fragment_shader)
        /\ CommentRefLine("u_a") \in Range(heap[p].computed_vertex_shader)
        /\ \A l \in Range(heap[p].computed_vertex_shader) : l.t # "uniform"

\* C12: a compile() of a program that follows a compile() of the same
\* program, with the same tables, leaves both computed shaders as the first
\* one made them, and changes neither the templates, nor the defines and
\* transforms of the program, nor the global tables.
C12_CompileTwiceSameSource ==
    [][\A p \in Programs :
          (/\ last.op \in {"new", "compile"} /\ last.p = p
           /\ last'.op = "compile" /\ last'.p = p)
          => /\ heap'[p].computed_vertex_shader = heap[p].computed_vertex_shader
             /\ heap'[p].computed_fragment_shader = heap[p].computed_fragment_shader
             /\ heap'[p].vertex_shader = heap[p].vertex_shader
             /\ heap'[p].fragment_shader = heap[p].fragment_shader
             /\ heap'[p].defines = heap[p].defines
             /\ heap'[p].transforms = heap[p].transforms
             /\ heap'[p].dependent_uniforms = heap[p].dependent_uniforms
             /\ UNCHANGED <<GLProgram_defines, GLProgram_transforms>>
      ]_vars

\* a program with an injection, a define of its own and a uniform declaration
\* in its vertex shader has just been compiled again
C12_Witness ==
    \E p \in Programs :
        /\ last.op = "compile" /\ last.p = p /\ last.threw = ""
        /\ \E l \in Range(heap[p].computed_vertex_shader) : IsTransformDefine(l)
        /\ \E l \in Range(heap[p].computed_vertex_shader) : l.t = "uniform"
        /\ CodeLine("x") \in Range(heap[p].computed_vertex_shader)

(* ---------------------------------------------------------------------- *)
(* SpecTex: the texture units of setUniforms().  One program is built and *)
(* takes setUniforms() calls with and without an explicit unit, and       *)
(* direct setTextureUniform() calls in between.                           *)
(* ---------------------------------------------------------------------- *)
Sampler(name, texture) ==
    [name |-> name, type |-> "sampler2D", method |-> "1i", value |-> <<texture>>]

TexFloat == [name |-> "u_a", type |-> "float", method |-> "1f", value |-> <<2>>]

\* GLSL.parseUniforms of the maps given to setUniforms
TexUniformMaps ==
    {<<TexFloat>>,
     <<Sampler("u_tex", "t1")>>,
     <<Sampler("u_tex", "t1"), Sampler("u_tex2", "t2")>>,
     <<Sampler("u_tex2", "t1"), TexFloat, Sampler("u_tex", "t1")>>}

\* the texture_unit argument: -1 for none, or a unit
TexUnits == {-1} \cup (0..MaxUnit)

NextTex ==
    \/ \E linked \in {{}, {"u_tex"}}, ok \in BOOLEAN :
          /\ heap = <<>>
          /\ Construct(LifeFragmentShader, LifeFragmentShader, NoOptions, ok, linked)
    \/ \E p \in Programs, parsed \in TexUniformMaps, unit \in TexUnits :
          SetUniforms(p, parsed, unit)
    \/ \E p \in Programs :
          /\ heap[p].texture_unit \in 0..(MaxUnit + 2)
          /\ SetTextureUniform(p, "u_tex", <<"t2">>)

SpecTex == Init /\ [][NextTex]_vars

\* the sampler uniforms of a parsed map, in the order they are processed
IsSampler(u) == u.type = "sampler2D"
Samplers(parsed) == SelectSeq(parsed, IsSampler)

IsBindCall(c) == c.f = "bindTexture"

\* C13: in every state a compiled program can be in, setUniforms(map, unit)
\* binds the texture of the k-th sampler uniform of the map (k = 0, 1, ...)
\* to the unit base + k and sets that uniform to the integer base + k, where
\* base is the unit given, or 0 when none is given.
C13_TextureUnits ==
    \A p \in Programs : \A parsed \in TexUniformMaps : \A unit \in TexUnits :
        heap[p].compiled
        => LET m == setUniforms(Begin, p, parsed, unit)
               base == IF unit >= 0 THEN unit ELSE 0
               samplers == Samplers(parsed)
               binds == SelectSeq(m.calls, IsBindCall)
           IN /\ Len(binds) = Len(samplers)
              /\ \A i \in 1..Len(samplers) :
                    /\ binds[i].obj = base + (i - 1)
                    /\ binds[i].vals = samplers[i].value
                    /\ samplers[i].name \in DOMAIN m.heap[p].uniforms
                    /\ m.heap[p].uniforms[samplers[i].name].values = <<base + (i - 1)>>
                    /\ m.heap[p].uniforms[samplers[i].name].method = "1i"
              /\ m.threw = ""

\* a setUniforms() call has just bound the textures of two samplers and set
\* the samplers to the units 0 and 1
C13_Witness ==
    \E p \in Programs :
        /\ last.op = "setUniforms" /\ last.p = p /\ heap[p].compiled
        /\ heap[p].texture_unit = 2
        /\ DOMAIN heap[p].uniforms = {"u_tex", "u_tex2"}
        /\ heap[p].uniforms["u_tex"].values = <<0>>
        /\ heap[p].uniforms["u_tex2"].values = <<1>>
        /\ Len(SelectSeq(last.calls, IsBindCall)) = 2

(* ---------------------------------------------------------------------- *)
(* Tile on the main thread                                                *)
(* ---------------------------------------------------------------------- *)

MaxPosts == 4

\* Infinity, above every draw order of the model
Infinity == 99

\* a reference to an object used as a map: null (or undefined), or the
\* properties of the object in the order they were added
NullRef == [null |-> TRUE, props |-> <<>>]
Ref(props) == [null |-> FALSE, props |-> props]
Prop(name, value) == [key |-> name, val |-> value]

\* the tile key of the model (x/y/z)
TileKey == "1/1/1"

\* new Tile(spec)
NewTile(key) ==
    [key |-> key, loading |-> FALSE, loaded |-> FALSE, error |-> Null, worker |-> Null,
     order |-> [min |-> Infinity, max |-> -Infinity], debug |-> [features |-> 0],
     vertex_data |-> NullRef, gl_geometry |-> NullRef]

\* the main thread as the methods of Tile see and change it
BeginTile == [tile |-> tile, geoms |-> geoms, scene |-> scene, channel |-> channel]

\* destroy() of the graphics geometry objects a map refers to
RECURSIVE GLGeometry_destroy(_, _)
GLGeometry_destroy(gs, props) ==
    IF props = <<>> THEN gs
    ELSE LET g == Head(props).val
         IN GLGeometry_destroy([gs EXCEPT ![g].destroyed = @ + 1], Tail(props))

Tile_freeResourcesKeepsMut(m) ==
    IF ~m.tile.gl_geometry.null
    THEN [m EXCEPT !.geoms = GLGeometry_destroy(m.geoms, m.tile.gl_geometry.props)]
    ELSE m

\* Tile.freeResources()
Tile_freeResources(m) ==
    IF ~m.tile.gl_geometry.null
    THEN [m EXCEPT !.geoms = GLGeometry_destroy(m.geoms, m.tile.gl_geometry.props),
                   !.tile.gl_geometry = NullRef]
    ELSE m

\* Tile.destroy()
Tile_destroy(m) == [Tile_freeResources(m) EXCEPT !.tile.worker = Null]

\* Tile.buildAsMessage(); the geographic fields are left out
Tile_buildAsMessage(m) ==
    [key |-> m.tile.key, order |-> m.tile.order, debug |-> m.tile.debug]

\* Tile.workerMessage(type, payload): WorkerBroker.postMessage adds the
\* message to those in flight; the message carries the orchestrator's
\* generation of the tile, which the reply brings back
Tile_workerMessage(m, type, payload) ==
    LET n == Len(m.channel.posted) + 1
        msg == [type |-> type, worker |-> m.tile.worker, n |-> n,
                generation |-> m.scene.generation, tile |-> payload]
    IN [m EXCEPT !.channel.posted = Append(@, type),
                 !.channel.flight = @ \cup {msg}]

\* scene.trackTileBuildStart(key): a build of the tile starts
Scene_trackTileBuildStart(m, key) ==
    [m EXCEPT !.scene.generation = @ + 1]

Tile_buildUntrackedMut(m) ==
    Tile_workerMessage(m, "buildTile", Tile_buildAsMessage(m))

Tile_buildTwiceMut(m) ==
    LET tracked == Scene_trackTileBuildStart(m, m.tile.key)
        once == Tile_workerMessage(tracked, "buildTile", Tile_buildAsMessage(m))
    IN Tile_workerMessage(once, "buildTile", Tile_buildAsMessage(m))

\* Tile.build(scene), up to the reply
Tile_build(m) ==
    Tile_workerMessage(Scene_trackTileBuildStart(m, m.tile.key),
                       "buildTile", Tile_buildAsMessage(m))

Tile_loadNotLoadingMut(m) == Tile_build(m)

\* Tile.load(scene)
Tile_load(m) == Tile_build([m EXCEPT !.tile.loading = TRUE])

\* Tile.remove()
Tile_remove(m) == Tile_workerMessage(m, "removeTile", Tile_buildAsMessage(m))

\* Tile.merge(other), other given as its properties
RECURSIVE Tile_merge(_, _)
Tile_merge(t, other) ==
    IF other = <<>> THEN t
    ELSE Tile_merge(IF Head(other).key # "key"
                    THEN [t EXCEPT ![Head(other).key] = Head(other).val]
                    ELSE t,
                    Tail(other))

\* styles[s].makeGLGeometry(vertex_data) for each style of the vertex data:
\* a new geometry object each
RECURSIVE MakeEach(_, _)
MakeEach(m, vertex_data) ==
    IF vertex_data = <<>> THEN m
    ELSE LET s == Head(vertex_data).key
             g == [style |-> s, vertex_data |-> Head(vertex_data).val, destroyed |-> 0]
             made == [m EXCEPT !.geoms = Append(@, g),
                               !.tile.gl_geometry.props =
                                    Append(@, Prop(s, Len(m.geoms) + 1))]
         IN MakeEach(made, Tail(vertex_data))

\* Tile.finalizeGeometry(styles)
Tile_finalizeGeometry(m) ==
    LET vertex_data == m.tile.vertex_data
        freed == Tile_freeResources(m)
        empty == [freed EXCEPT !.tile.gl_geometry = Ref(<<>>)]
        made == MakeEach(empty, vertex_data.props)
    IN [made EXCEPT !.tile.vertex_data = NullRef]

(* ---------------------------------------------------------------------- *)
(* Specification: one tile key, its builds and their results               *)
(* ---------------------------------------------------------------------- *)

\* the scene makes a tile for the key, gives it a worker and loads it
Scene_loadTile(m, key) ==
    Tile_load([m EXCEPT !.tile = [NewTile(key) EXCEPT !.worker = 1],
                        !.scene.live = TRUE])

\* the scene removes the tile: its resources are released, the worker is
\* told, and builds still outstanding are out of date
Scene_removeTile(m) ==
    LET gone == Tile_remove(Tile_destroy(m))
    IN [gone EXCEPT !.scene.live = FALSE, !.scene.generation = @ + 1]

\* scene.buildTileCompleted(message): a result for a tile that was removed,
\* or of a build that is not the tile's latest, is discarded; otherwise the
\* tile takes the result and its geometry is made
Scene_buildTileCompleted(m, message) ==
    IF ~m.scene.live \/ message.generation # m.scene.generation
    THEN [m EXCEPT !.scene.discarded = @ + 1]
    ELSE Tile_finalizeGeometry([m EXCEPT !.tile = Tile_merge(@, message.tile)])

\* the worker's reply to a build request: the tile as built, with the
\* vertex data of the styles given, each buffer marked with the request
BuiltTile(msg, built_styles) ==
    <<Prop("key", msg.tile.key), Prop("loading", FALSE), Prop("loaded", TRUE),
      Prop("vertex_data",
           Ref([i \in 1..Len(built_styles) |-> Prop(built_styles[i], msg.n)]))>>

BuiltStyles == {<<>>, <<"polygons">>, <<"polygons", "lines">>}

TileReturn(m) ==
    /\ tile' = m.tile
    /\ geoms' = m.geoms
    /\ scene' = m.scene
    /\ channel' = m.channel
    /\ UNCHANGED <<progvars, worker, events, registered>>

LoadTile ==
    /\ ~scene.live
    /\ Len(channel.posted) < MaxPosts
    /\ TileReturn(Scene_loadTile(BeginTile, TileKey))

RebuildTile ==
    /\ scene.live
    /\ Len(channel.posted) < MaxPosts
    /\ TileReturn(Tile_build(BeginTile))

RemoveTile ==
    /\ scene.live
    /\ Len(channel.posted) < MaxPosts
    /\ TileReturn(Scene_removeTile(BeginTile))

WorkerBuild(msg, built_styles) ==
    /\ msg.type = "buildTile"
    /\ LET reply == [msg EXCEPT !.type = "built", !.tile = BuiltTile(msg, built_styles)]
       IN channel' = [channel EXCEPT !.flight = (@ \ {msg}) \cup {reply}]
    /\ UNCHANGED <<progvars, tile, geoms, scene, worker, events, registered>>

WorkerRemove(msg) ==
    /\ msg.type = "removeTile"
    /\ channel' = [channel EXCEPT !.flight = @ \ {msg}]
    /\ UNCHANGED <<progvars, tile, geoms, scene, worker, events, registered>>

\* the reply arrives: the continuation of Tile.build runs
Deliver(msg) ==
    /\ msg.type = "built"
    /\ TileReturn(Scene_buildTileCompleted(
                      [BeginTile EXCEPT !.channel.flight = @ \ {msg}], msg))

InitScene ==
    /\ ProgramsAsLoaded
    /\ tile = NewTile(TileKey)
    /\ geoms = <<>>
    /\ scene = [live |-> FALSE, generation |-> 0, discarded |-> 0]
    /\ channel = [flight |-> {}, posted |-> <<>>]
    /\ worker = <<>>
    /\ events = <<>> /\ registered = <<>>

NextScene ==
    \/ LoadTile
    \/ RebuildTile
    \/ RemoveTile
    \/ \E msg \in channel.flight, built_styles \in BuiltStyles : WorkerBuild(msg, built_styles)
    \/ \E msg \in channel.flight : WorkerRemove(msg)
    \/ \E msg \in channel.flight : Deliver(msg)

SpecScene == InitScene /\ [][NextScene]_vars

(* ---------------------------------------------------------------------- *)
(* C14                                                                    *)
(* ---------------------------------------------------------------------- *)

\* a reply is out of date when the tile was removed or another build of it
\* was started after the build it answers
C14_Stale(msg) == msg.n < Len(channel.posted)

\* the geometry a tile shows is made of the buffers of build n
C14_ShowsBuild(t, gs, n) ==
    /\ ~t.gl_geometry.null
    /\ \A i \in 1..Len(t.gl_geometry.props) :
          LET g == gs[t.gl_geometry.props[i].val]
          IN g.vertex_data = n /\ g.destroyed = 0

MaxBuilds == 2

\* StyleParser.defaults.style.name
DefaultStyle == "polygons"

getGeometryForSourceNoFallbackMut(t, source) ==
    IF source.null THEN NullRef
    ELSE IF source.filter.type \in {"string", "function"} /\ HasKey(t.layers, source.filter.value)
         THEN Ref(t.layers[KeyIndex(t.layers, source.filter.value)].val)
         ELSE NullRef

\* Tile.getGeometryForSource(tile, source): the features of the collection
\* found. A filter function is given by the name of the sub-layer whose
\* collection it returns ("" when it returns nothing).
getGeometryForSource(t, source) ==
    LET get(name) == IF HasKey(t.layers, name)
                     THEN Ref(t.layers[KeyIndex(t.layers, name)].val)
                     ELSE NullRef
        geom == IF source.null THEN NullRef
                ELSE IF source.filter.type = "string" THEN get(source.filter.value)
                ELSE IF source.filter.type = "function" THEN get(source.filter.value)
                ELSE NullRef
    IN IF geom.null THEN Ref(<<>>) ELSE geom

RuleStepAlwaysCreatesMut(w, styles, name, feature, rule) ==
    IF ~rule.visible THEN w
    ELSE LET style_name == IF rule.name = "" THEN DefaultStyle ELSE rule.name
             style == styles[style_name]
             call(f) == [f |-> f, layer |-> name, feature |-> feature.id, style |-> style.name]
             parse == [w EXCEPT !.calls = Append(@, call("parseFeature"))]
         IN IF ~rule.parsed THEN parse
            ELSE LET tracked == [parse EXCEPT
                                    !.tile.order.min = IF rule.order < @ THEN rule.order ELSE @,
                                    !.tile.order.max = IF rule.order > @ THEN rule.order ELSE @]
                     created == [tracked EXCEPT
                                    !.vertex_data = SetDefine(@, style.name, <<>>),
                                    !.calls = Append(@, call("createVertexData"))]
                     builder ==
                        CASE feature.type \in {"Polygon", "MultiPolygon"} -> "buildPolygons"
                          [] feature.type \in {"LineString", "MultiLineString"} -> "buildLines"
                          [] feature.type \in {"Point", "MultiPoint"} -> "buildPoints"
                          [] OTHER -> ""
                 IN IF builder = "" THEN created
                    ELSE [created EXCEPT
                            !.calls = Append(@, [f |-> builder, layer |-> name,
                                                 feature |-> feature.id, style |-> style.name,
                                                 feature_style |-> [order |-> rule.order,
                                                                    layer |-> rule.order]]),
                            !.vertex_data[KeyIndex(created.vertex_data, style.name)].val =
                                Append(@, <<name, feature.id>>)]

\* a step that widens the order range before it looks at what parseFeature
\* returned
RuleStepTracksRejectedMut(w, styles, name, feature, rule) ==
    IF ~rule.visible THEN w
    ELSE LET style_name == IF rule.name = "" THEN DefaultStyle ELSE rule.name
             style == styles[style_name]
             call(f) == [f |-> f, layer |-> name, feature |-> feature.id, style |-> style.name]
             parse == [w EXCEPT !.calls = Append(@, call("parseFeature")),
                                !.tile.order.min = IF rule.order < @ THEN rule.order ELSE @,
                                !.tile.order.max = IF rule.order > @ THEN rule.order ELSE @]
         IN IF ~rule.parsed THEN parse
            ELSE LET tracked == [parse EXCEPT
                                    !.tile.order.min = IF rule.order < @ THEN rule.order ELSE @,
                                    !.tile.order.max = IF rule.order > @ THEN rule.order ELSE @]
                     created == IF ~HasKey(tracked.vertex_data, style.name)
                                THEN [tracked EXCEPT
                                        !.vertex_data = Append(@, Prop(style.name, <<>>)),
                                        !.calls = Append(@, call("createVertexData"))]
                                ELSE tracked
                     builder ==
                        CASE feature.type \in {"Polygon", "MultiPolygon"} -> "buildPolygons"
                          [] feature.type \in {"LineString", "MultiLineString"} -> "buildLines"
                          [] feature.type \in {"Point", "MultiPoint"} -> "buildPoints"
                          [] OTHER -> ""
                 IN IF builder = "" THEN created
                    ELSE [created EXCEPT
                            !.calls = Append(@, [f |-> builder, layer |-> name,
                                                 feature |-> feature.id, style |-> style.name,
                                                 feature_style |-> [order |-> rule.order,
                                                                    layer |-> rule.order]]),
                            !.vertex_data[KeyIndex(created.vertex_data, style.name)].val =
                                Append(@, <<name, feature.id>>)]

\* one matched rule of one feature (lines 529-590); parseFeature returns a
\* style with the rule's order, or nothing, as the rule says
RuleStep(w, styles, name, feature, rule) ==
    IF ~rule.visible THEN w
    ELSE LET style_name == IF rule.name = "" THEN DefaultStyle ELSE rule.name
             style == styles[style_name]
             call(f) == [f |-> f, layer |-> name, feature |-> feature.id, style |-> style.name]
             parse == [w EXCEPT !.calls = Append(@, call("parseFeature"))]
         IN IF ~rule.parsed THEN parse
            ELSE LET tracked == [parse EXCEPT
                                    !.tile.order.min = IF rule.order < @ THEN rule.order ELSE @,
                                    !.tile.order.max = IF rule.order > @ THEN rule.order ELSE @]
                     created == IF ~HasKey(tracked.vertex_data, style.name)
                                THEN [tracked EXCEPT
                                        !.vertex_data = Append(@, Prop(style.name, <<>>)),
                                        !.calls = Append(@, call("createVertexData"))]
                                ELSE tracked
                     builder ==
                        CASE feature.type \in {"Polygon", "MultiPolygon"} -> "buildPolygons"
                          [] feature.type \in {"LineString", "MultiLineString"} -> "buildLines"
                          [] feature.type \in {"Point", "MultiPoint"} -> "buildPoints"
                          [] OTHER -> ""
                 IN IF builder = "" THEN created
                    ELSE [created EXCEPT
                            !.calls = Append(@, [f |-> builder, layer |-> name,
                                                 feature |-> feature.id, style |-> style.name,
                                                 feature_style |-> [order |-> rule.order,
                                                                    layer |-> rule.order]]),
                            !.vertex_data[KeyIndex(created.vertex_data, style.name)].val =
                                Append(@, <<name, feature.id>>)]

FeatureStepCountsRulesMut(w, rules, styles, name, feature) ==
    LET layer_rules == IF HasKey(rules, name) THEN rules[KeyIndex(rules, name)].val ELSE <<>>
        matches(r) == feature.id \in r.matches
        matchedRules == SelectSeq(layer_rules, matches)
        context == [w EXCEPT !.calls = Append(@, [f |-> "getFeatureParseContext", layer |-> name,
                                                  feature |-> feature.id, style |-> ""])]
        RECURSIVE each(_, _)
        each(v, i) == IF i > Len(matchedRules) THEN v
                      ELSE each([RuleStep(v, styles, name, feature, matchedRules[i].rule)
                                    EXCEPT !.tile.debug.features = @ + 1], i + 1)
    IN each(context, 1)

\* one feature of a layer (lines 516-593): the rules that match it, in the
\* order matchFeature appends them, then the count
FeatureStep(w, rules, styles, name, feature) ==
    LET layer_rules == IF HasKey(rules, name) THEN rules[KeyIndex(rules, name)].val ELSE <<>>
        matches(r) == feature.id \in r.matches
        matchedRules == SelectSeq(layer_rules, matches)
        context == [w EXCEPT !.calls = Append(@, [f |-> "getFeatureParseContext", layer |-> name,
                                                  feature |-> feature.id, style |-> ""])]
        RECURSIVE each(_, _)
        each(v, i) == IF i > Len(matchedRules) THEN v
                      ELSE each(RuleStep(v, styles, name, feature, matchedRules[i].rule), i + 1)
        rendered == each(context, 1)
    IN [rendered EXCEPT !.tile.debug.features = @ + 1]

LayerStepForwardMut(w, rules, styles, name, layer) ==
    IF layer.geometry.null THEN w
    ELSE LET geom == getGeometryForSource(w.tile, layer.geometry)
             resolved == [w EXCEPT !.calls = Append(@, [f |-> "getGeometryForSource",
                                       layer |-> name, feature |-> 0, style |-> ""])]
             RECURSIVE each(_, _)
             each(v, f) == IF f > Len(geom.props) THEN v
                           ELSE each(FeatureStep(v, rules, styles, name, geom.props[f]), f + 1)
         IN IF geom.null THEN resolved ELSE each(resolved, 1)

\* one layer (lines 502-596): its features from the last to the first
LayerStep(w, rules, styles, name, layer) ==
    IF layer.geometry.null THEN w
    ELSE LET geom == getGeometryForSource(w.tile, layer.geometry)
             resolved == [w EXCEPT !.calls = Append(@, [f |-> "getGeometryForSource",
                                       layer |-> name, feature |-> 0, style |-> ""])]
             RECURSIVE each(_, _)
             each(v, f) == IF f < 1 THEN v
                           ELSE each(FeatureStep(v, rules, styles, name, geom.props[f]), f - 1)
         IN IF geom.null THEN resolved ELSE each(resolved, Len(geom.props))

\* for (name in layers), then the buffers are finalized
RECURSIVE ForEachLayer(_, _, _, _)
ForEachLayer(w, layers, rules, styles) ==
    IF layers = <<>>
    THEN [tile |-> [w.tile EXCEPT !.vertex_data =
                        Ref([i \in 1..Len(w.vertex_data) |->
                                Prop(w.vertex_data[i].key,
                                     [data |-> w.vertex_data[i].val, ended |-> TRUE])])],
          calls |-> w.calls \o [i \in 1..Len(w.vertex_data) |->
                                   [f |-> "end", layer |-> "", feature |-> 0,
                                    style |-> w.vertex_data[i].key]]]
    ELSE ForEachLayer(LayerStep(w, rules, styles, Head(layers).key, Head(layers).val),
                      Tail(layers), rules, styles)

buildGeometryByOrderMut(t, layers, rules, styles) ==
    LET RECURSIVE sorted(_)
        sorted(ls) ==
            IF ls = <<>> THEN <<>>
            ELSE LET ord(l) == IF l.val.geometry.null THEN 0 ELSE l.val.geometry.order
                     i == CHOOSE i \in 1..Len(ls) :
                              /\ \A j \in 1..Len(ls) : ord(ls[i]) <= ord(ls[j])
                              /\ \A j \in 1..(i - 1) : ord(ls[j]) > ord(ls[i])
                 IN <<ls[i]>> \o sorted(SubSeq(ls, 1, i - 1) \o SubSeq(ls, i + 1, Len(ls)))
    IN ForEachLayer([tile |-> [t EXCEPT !.debug.features = 0], vertex_data |-> <<>>,
                     calls |-> <<>>], sorted(layers), rules, styles)

\* Tile.buildGeometry(tile, layers, rules, styles): the tile as built and
\* the calls made on the styles, in order
buildGeometry(t, layers, rules, styles) ==
    ForEachLayer([tile |-> [t EXCEPT !.debug.features = 0], vertex_data |-> <<>>,
                  calls |-> <<>>], layers, rules, styles)

(* ---------------------------------------------------------------------- *)
(* Specification: builds of one tile in the worker                        *)
(* ---------------------------------------------------------------------- *)

\* tile.layers: the collections of the tile's data, by sub-layer name;
\* feature 4 has a geometry type no builder handles
BuildTileData ==
    LET F(id, type) == [id |-> id, type |-> type]
    IN {<<Prop("water", <<F(1, "Polygon"), F(2, "LineString")>>),
          Prop("roads", <<F(3, "Point"), F(4, "GeometryCollection")>>)>>,
        <<Prop("water", <<F(2, "LineString"), F(1, "Polygon"), F(3, "Point")>>)>>}

\* the layers of the scene, in the order for..in gives them: with a string
\* filter, a function filter, a filter that is neither, a filter that finds
\* nothing, and no geometry at all
BuildLayers ==
    LET Source(type, value, order) ==
            [null |-> FALSE, filter |-> [type |-> type, value |-> value], order |-> order]
        Layer(name, source) == Prop(name, [geometry |-> source])
        none == [null |-> TRUE, filter |-> [type |-> "", value |-> ""], order |-> 0]
        water == Layer("water", Source("string", "water", 0))
        roads == Layer("roads", Source("function", "roads", 1))
    IN {<<water, roads>>,
        <<roads, water>>,
        <<Layer("labels", none), water>>,
        <<Layer("earth", Source("string", "earth", 0)), roads>>,
        <<Layer("water", Source("function", "", 0)), roads>>,
        <<Layer("water", Source("number", "", 0)), Layer("roads", Source("string", "water", 1))>>}

\* rules[name]: for each layer the rules matchFeature is called on, each
\* with the features it matches and the rule it then appends
BuildRules ==
    LET Rule(name, visible, parsed, order) ==
            [name |-> name, visible |-> visible, parsed |-> parsed, order |-> order]
        On(matches, rule) == [matches |-> matches, rule |-> rule]
    IN {<<Prop("water", <<On({1, 2, 3}, Rule("polygons", TRUE, TRUE, 0))>>),
          Prop("roads", <<On({3, 4}, Rule("polygons", TRUE, TRUE, 1))>>)>>,
        <<Prop("water", <<On({1}, Rule("", TRUE, TRUE, 2)),
                          On({1, 2}, Rule("lines", TRUE, TRUE, -1))>>)>>,
        <<Prop("water", <<On({1, 2}, Rule("polygons", FALSE, TRUE, 0)),
                          On({2}, Rule("lines", TRUE, FALSE, 0))>>),
          Prop("roads", <<On({3, 4}, Rule("polygons", TRUE, TRUE, 3))>>)>>}

\* styles, by name
BuildStyles == [n \in {"polygons", "lines"} |-> [name |-> n]]

\* the worker builds the tile it holds
BuildGeometry(layers, rules) ==
    /\ worker.runs < MaxBuilds
    /\ LET built == buildGeometry(worker.tile, layers, rules, BuildStyles)
       IN worker' = [tile |-> built.tile, layers |-> layers, rules |-> rules,
                     calls |-> built.calls, runs |-> worker.runs + 1]
    /\ UNCHANGED <<progvars, tile, geoms, scene, channel, events, registered>>

InitBuild ==
    /\ ProgramsAsLoaded
    /\ tile = <<>> /\ geoms = <<>> /\ scene = <<>> /\ channel = <<>>
    /\ events = <<>> /\ registered = <<>>
    /\ \E data \in BuildTileData :
          worker = [tile |-> [layers |-> data, debug |-> [features |-> 0],
                              order |-> [min |-> Infinity, max |-> -Infinity],
                              vertex_data |-> NullRef],
                    layers |-> <<>>, rules |-> <<>>, calls |-> <<>>, runs |-> 0]

NextBuild == \E layers \in BuildLayers, rules \in BuildRules : BuildGeometry(layers, rules)

SpecBuild == InitBuild /\ [][NextBuild]_vars

(* ---------------------------------------------------------------------- *)
(* C15                                                                    *)
(* ---------------------------------------------------------------------- *)

\* the layers resolved by the last build, in the order they were resolved
C15_Resolved ==
    LET isResolve(c) == c.f = "getGeometryForSource"
        rs == SelectSeq(worker.calls, isResolve)
    IN [i \in 1..Len(rs) |-> rs[i].layer]

C15_Order(name) ==
    worker.layers[KeyIndex(worker.layers, name)].val.geometry.order

\* C15 as stated: a build resolves the layers in ascending order of their
\* declared geometry order, wherever they stand in the layers map.
C15_Original ==
    \A i \in 1..Len(C15_Resolved) : \A j \in (i + 1)..Len(C15_Resolved) :
        C15_Order(C15_Resolved[i]) <= C15_Order(C15_Resolved[j])

\* C15: a build resolves the layers that have a geometry descriptor in the
\* order in which the layers map enumerates them; the declared order value
\* plays no part.
C15_LayersInMapOrder ==
    LET hasGeometry(l) == ~l.val.geometry.null
        declared == SelectSeq(worker.layers, hasGeometry)
    IN C15_Resolved = [i \in 1..Len(declared) |-> declared[i].key]

\* a build has resolved a layer of order 1 before a layer of order 0, as the
\* layers map gave them
C15_Witness ==
    /\ worker.runs >= 1
    /\ C15_Resolved = <<"roads", "water">>
    /\ C15_Order("roads") = 1 /\ C15_Order("water") = 0

(* ---------------------------------------------------------------------- *)
(* C16                                                                    *)
(* ---------------------------------------------------------------------- *)

\* the features a build meets: for each layer that has a geometry
\* descriptor, the features of the collection resolved for it
C16_Met(t, layers) ==
    UNION {{<<layers[i].key, x.id>> :
               x \in Range(getGeometryForSource(t, layers[i].val.geometry).props)} :
           i \in {i \in 1..Len(layers) : ~layers[i].val.geometry.null}}

\* the rules matched for a feature of a layer
C16_Matched(rules, name, f) ==
    IF HasKey(rules, name)
    THEN {r \in Range(rules[KeyIndex(rules, name)].val) : f \in r.matches}
    ELSE {}

\* C16: a build leaves in tile.debug.features the number of features of the
\* collections resolved for the layers that have a geometry descriptor,
\* whatever the count was before and whatever rules matched, were invisible
\* or were rejected by parseFeature; for a feature with no matched rule no
\* style is parsed, no buffer is created and no builder is called; and the
\* order range of the tile is widened by the orders of the parsed styles only.
C16_FeatureCount ==
    [][worker'.runs # worker.runs
       => LET met == C16_Met(worker.tile, worker'.layers)
              orders == {r.rule.order :
                            r \in {r \in UNION {C16_Matched(worker'.rules, lf[1], lf[2]) : lf \in met} :
                                      r.rule.visible /\ r.rule.parsed}}
              least == orders \cup {worker.tile.order.min}
              most == orders \cup {worker.tile.order.max}
          IN /\ worker'.tile.debug.features = Cardinality(met)
             /\ \A lf \in met :
                   C16_Matched(worker'.rules, lf[1], lf[2]) = {}
                   => \A i \in 1..Len(worker'.calls) :
                         LET c == worker'.calls[i]
                         IN (c.layer = lf[1] /\ c.feature = lf[2])
                            => c.f = "getFeatureParseContext"
             /\ \A lf \in met :
                   C16_Matched(worker'.rules, lf[1], lf[2]) = {}
                   => \A i \in 1..Len(worker'.tile.vertex_data.props) :
                         lf \notin Range(worker'.tile.vertex_data.props[i].val.data)
             /\ worker'.tile.order.min \in least
             /\ \A o \in least : worker'.tile.order.min <= o
             /\ worker'.tile.order.max \in most
             /\ \A o \in most : worker'.tile.order.max >= o]_vars

\* a second build of a tile has counted its four features from 0: feature 1
\* matched two rules, feature 2 one, and features 3 and 4 of the layer roads
\* none, so nothing was parsed or built for them
C16_Witness ==
    /\ worker.runs = 2
    /\ worker.tile.debug.features = 4
    /\ C15_Resolved = <<"water", "roads">>
    /\ ~HasKey(worker.rules, "roads")
    /\ Cardinality({i \in 1..Len(worker.calls) : worker.calls[i].f = "parseFeature"}) = 3
    /\ \A i \in 1..Len(worker.calls) :
          worker.calls[i].layer = "roads"
          => worker.calls[i].f \in {"getGeometryForSource", "getFeatureParseContext"}

(* ---------------------------------------------------------------------- *)
(* C17                                                                    *)
(* ---------------------------------------------------------------------- *)

\* descriptors that find nothing in a tile: null, a string filter naming no
\* sub-layer, a function filter that returns nothing, a filter that is
\* neither a string nor a function
C17_FindNothing(t) ==
    LET Source(null, type, value) ==
            [null |-> null, filter |-> [type |-> type, value |-> value], order |-> 0]
    IN {Source(TRUE, "", "")}
       \cup {Source(FALSE, "string", n) : n \in {"earth", "roads", "water"} \ Keys(t.layers)}
       \cup {Source(FALSE, "function", "")}
       \cup {Source(FALSE, type, n) : type \in {"number", "undefined"}, n \in {"", "water"}}

\* C17: for the tile of every reachable state, getGeometryForSource returns
\* a collection with no features for each descriptor that finds nothing, and
\* the sub-layer's own collection for a filter that names one. In a build, a
\* layer with no geometry descriptor is skipped without a call of
\* getGeometryForSource; a layer whose descriptor finds nothing is resolved
\* and no other call is made for it; and every layer with a descriptor is
\* resolved, whatever the layers before it found.
C17_EmptyCollectionFallback ==
    /\ \A source \in C17_FindNothing(worker.tile) :
          getGeometryForSource(worker.tile, source) = Ref(<<>>)
    /\ \A k \in 1..Len(worker.tile.layers) : \A type \in {"string", "function"} :
          getGeometryForSource(worker.tile,
              [null |-> FALSE, filter |-> [type |-> type, value |-> worker.tile.layers[k].key],
               order |-> 0]) = Ref(worker.tile.layers[k].val)
    /\ \A i \in 1..Len(worker.layers) :
          LET layer == worker.layers[i]
              made == {j \in 1..Len(worker.calls) : worker.calls[j].layer = layer.key}
          IN IF layer.val.geometry.null
             THEN made = {}
             ELSE /\ \E j \in made : worker.calls[j].f = "getGeometryForSource"
                  /\ layer.val.geometry \in C17_FindNothing(worker.tile)
                     => Cardinality(made) = 1

\* a build has resolved the layer earth, whose filter names no sub-layer of
\* the tile, made no other call for it, and gone on to build the layer roads
C17_Witness ==
    /\ worker.runs >= 1
    /\ C15_Resolved = <<"earth", "roads">>
    /\ worker.layers[1].val.geometry \in C17_FindNothing(worker.tile)
    /\ \E j \in 1..Len(worker.calls) :
          worker.calls[j].layer = "roads" /\ worker.calls[j].f = "buildPoints"

(* ---------------------------------------------------------------------- *)
(* C18                                                                    *)
(* ---------------------------------------------------------------------- *)

\* the calls the last build made for the features of a layer, in order
C18_CallsFor(name) ==
    LET own(c) == c.layer = name /\ c.feature # 0
    IN SelectSeq(worker.calls, own)

\* the styles of the rules matched for a feature that are visible, in the
\* order the matcher appended the rules
C18_Styles(name, id) ==
    LET layer_rules == IF HasKey(worker.rules, name)
                       THEN worker.rules[KeyIndex(worker.rules, name)].val ELSE <<>>
        shown(r) == id \in r.matches /\ r.rule.visible
        rs == SelectSeq(layer_rules, shown)
    IN [i \in 1..Len(rs) |-> IF rs[i].rule.name = "" THEN DefaultStyle ELSE rs[i].rule.name]

\* C18: in a build, for each layer with a geometry descriptor, the features
\* of the collection resolved for it are taken up from the last to the first,
\* each once; every call made for a feature (parseFeature, createVertexData,
\* the builders) comes before the calls for the feature at the next lower
\* index; and the visible matched rules of a feature are parsed in the order
\* the matcher appended them.
C18_ReverseFeatureOrder ==
    \A i \in 1..Len(worker.layers) :
        LET layer == worker.layers[i]
            feats == getGeometryForSource(worker.tile, layer.val.geometry).props
            own == C18_CallsFor(layer.key)
            isContext(c) == c.f = "getFeatureParseContext"
            taken == SelectSeq(own, isContext)
            pos(id) == CHOOSE k \in 1..Len(feats) : feats[k].id = id
        IN ~layer.val.geometry.null
           => /\ Len(taken) = Len(feats)
              /\ \A k \in 1..Len(feats) : taken[k].feature = feats[Len(feats) + 1 - k].id
              /\ \A a \in 1..Len(own) : \A b \in (a + 1)..Len(own) :
                    pos(own[a].feature) >= pos(own[b].feature)
              /\ \A k \in 1..Len(feats) :
                    LET isParse(c) == c.f = "parseFeature" /\ c.feature = feats[k].id
                        parsed == SelectSeq(own, isParse)
                    IN [j \in 1..Len(parsed) |-> parsed[j].style]
                       = C18_Styles(layer.key, feats[k].id)

\* a build has taken the features 2, 1, 3 of the layer water in the order
\* 3, 1, 2, and parsed for feature 1 the default style and then lines, as
\* its two rules were matched
C18_Witness ==
    /\ worker.runs >= 1
    /\ LET isContext(c) == c.f = "getFeatureParseContext"
           taken == SelectSeq(C18_CallsFor("water"), isContext)
       IN [k \in 1..Len(taken) |-> taken[k].feature] = <<3, 1, 2>>
    /\ C18_Styles("water", 1) = <<"polygons", "lines">>
    /\ \E a, b \in 1..Len(worker.calls) :
          /\ a < b
          /\ worker.calls[a].f = "buildPolygons" /\ worker.calls[a].style = "lines"
          /\ worker.calls[b].f = "buildLines" /\ worker.calls[b].feature = 2

(* ---------------------------------------------------------------------- *)
(* C19                                                                    *)
(* ---------------------------------------------------------------------- *)

\* the styles parseFeature returned a style for in the last build: those of
\* the visible matched rules, of the features met, that were not rejected
C19_Rendered ==
    {IF r.rule.name = "" THEN DefaultStyle ELSE r.rule.name :
        r \in {r \in UNION {C16_Matched(worker.rules, lf[1], lf[2]) :
                               lf \in C16_Met(worker.tile, worker.layers)} :
                  r.rule.visible /\ r.rule.parsed}}

\* C19: after a build, createVertexData has been called at most once for
\* each style name; the buffer of a style holds what the builders were
\* called with for that style, in the order of the calls, whatever the layer;
\* and tile.vertex_data has one entry, a buffer that was ended once, for each
\* style parseFeature returned a style for, and no other entry.
C19_OneBufferPerStyle ==
    worker.runs >= 1
    => LET vertex_data == worker.tile.vertex_data.props
           calls(f, style) == {j \in 1..Len(worker.calls) :
                                  worker.calls[j].f = f /\ worker.calls[j].style = style}
           isBuilder(c) == c.f \in {"buildPolygons", "buildLines", "buildPoints"}
       IN /\ ~worker.tile.vertex_data.null
          /\ \A style \in DOMAIN BuildStyles :
                Cardinality(calls("createVertexData", style)) <= 1
          /\ {vertex_data[k].key : k \in 1..Len(vertex_data)} = C19_Rendered
          /\ \A k, l \in 1..Len(vertex_data) : vertex_data[k].key = vertex_data[l].key => k = l
          /\ \A k \in 1..Len(vertex_data) :
                LET style == vertex_data[k].key
                    ofStyle(c) == isBuilder(c) /\ c.style = style
                    built == SelectSeq(worker.calls, ofStyle)
                IN /\ vertex_data[k].val.ended
                   /\ Cardinality(calls("end", style)) = 1
                   /\ Cardinality(calls("createVertexData", style)) = 1
                   /\ vertex_data[k].val.data
                      = [j \in 1..Len(built) |-> <<built[j].layer, built[j].feature>>]

\* a build has put features of the layers water and roads, rendered with
\* the style polygons, into the one buffer of that style
C19_Witness ==
    /\ worker.runs >= 1
    /\ Len(worker.tile.vertex_data.props) = 1
    /\ worker.tile.vertex_data.props[1].key = "polygons"
    /\ worker.tile.vertex_data.props[1].val.data = <<<<"water", 2>>, <<"water", 1>>, <<"roads", 3>>>>

(* ---------------------------------------------------------------------- *)
(* Specification: the geometry of one tile on the main thread             *)
(* ---------------------------------------------------------------------- *)

MaxGeometries == 4

\* a call of a Tile method on the main thread, and the name of the method
TileCall(op, m) ==
    /\ tile' = m.tile
    /\ geoms' = m.geoms
    /\ last' = [last EXCEPT !.op = op]
    /\ UNCHANGED <<heap, GLProgram_id, GLProgram_programs, GLProgram_current,
                   GLProgram_defines, GLProgram_transforms, gl_program, gl_objects>>
    /\ UNCHANGED <<scene, channel, worker, events, registered>>

InitGeom ==
    /\ ProgramsAsLoaded
    /\ tile = [NewTile(TileKey) EXCEPT !.worker = 1]
    /\ geoms = <<>> /\ scene = <<>> /\ channel = <<>> /\ worker = <<>>
    /\ events = <<>> /\ registered = <<>>

\* the tile takes the vertex data of a build; its geometry is made; its
\* resources are freed; it is destroyed
NextGeom ==
    \/ \E built_styles \in BuiltStyles :
          TileCall("merge",
                   [BeginTile EXCEPT !.tile = Tile_merge(@,
                        <<Prop("key", TileKey),
                          Prop("vertex_data",
                               Ref([i \in 1..Len(built_styles) |->
                                       Prop(built_styles[i], Len(geoms))]))>>)])
    \/ /\ Len(geoms) + Len(tile.vertex_data.props) <= MaxGeometries
       /\ TileCall("finalizeGeometry", Tile_finalizeGeometry(BeginTile))
    \/ TileCall("freeResources", Tile_freeResources(BeginTile))
    \/ TileCall("destroy", Tile_destroy(BeginTile))

SpecGeom == InitGeom /\ [][NextGeom]_vars

(* ---------------------------------------------------------------------- *)
(* C20                                                                    *)
(* ---------------------------------------------------------------------- *)

\* the geometry objects the tile refers to
C20_Held(t) == IF t.gl_geometry.null THEN {}
               ELSE {t.gl_geometry.props[i].val : i \in 1..Len(t.gl_geometry.props)}

\* C20: under every sequence of merge, finalizeGeometry, freeResources and
\* destroy calls on a tile, no geometry object is destroyed twice; the tile
\* refers to exactly the geometry objects that are not destroyed, to each
\* under one style; every finalizeGeometry, freeResources and destroy call
\* leaves destroyed all the geometry objects that existed before it; and
\* after destroy gl_geometry is null.
C20_GeometryDestroyedOnce ==
    /\ [](/\ \A g \in 1..Len(geoms) : geoms[g].destroyed <= 1
          /\ C20_Held(tile) = {g \in 1..Len(geoms) : geoms[g].destroyed = 0}
          /\ \A i, j \in 1..Len(tile.gl_geometry.props) :
                tile.gl_geometry.props[i].val = tile.gl_geometry.props[j].val => i = j
          /\ last.op = "destroy" => tile.gl_geometry.null /\ tile.worker = Null)
    /\ [][last'.op \in {"finalizeGeometry", "freeResources", "destroy"}
          => /\ \A g \in 1..Len(geoms) : geoms'[g].destroyed = 1
             /\ last'.op = "finalizeGeometry"
                => /\ Len(geoms') = Len(geoms) + Len(tile.vertex_data.props)
                   /\ Len(tile'.gl_geometry.props) = Len(tile.vertex_data.props)]_vars

\* finalizeGeometry has just rebuilt the geometry of the tile: the two
\* geometry objects of the first build are destroyed, once each, and the
\* tile holds the geometry object of the second
C20_Witness ==
    /\ last.op = "finalizeGeometry"
    /\ Len(geoms) = 3
    /\ geoms[1].destroyed = 1 /\ geoms[2].destroyed = 1 /\ geoms[3].destroyed = 0
    /\ C20_Held(tile) = {3}

(* ---------------------------------------------------------------------- *)
(* Specification: the builds of two tiles, answered or failed             *)
(* ---------------------------------------------------------------------- *)

MaxRequests == 3

TileKeys == {TileKey, "2/1/1"}

\* the main thread as the methods of the tile of one key see it
TileOf(k) == [tile |-> tile[k], geoms |-> geoms, scene |-> scene[k], channel |-> channel]

\* a call on the tile of one key, or of the scene for it, with the request
\* it is about
TilesCall(k, op, n, m) ==
    /\ tile' = [tile EXCEPT ![k] = m.tile]
    /\ scene' = [scene EXCEPT ![k] = m.scene]
    /\ geoms' = m.geoms
    /\ channel' = m.channel
    /\ last' = [last EXCEPT !.op = op, !.name = k, !.values = <<n>>]
    /\ UNCHANGED <<heap, GLProgram_id, GLProgram_programs, GLProgram_current,
                   GLProgram_defines, GLProgram_transforms, gl_program, gl_objects, worker,
                   events, registered>>

InitTiles ==
    /\ ProgramsAsLoaded
    /\ tile = [k \in TileKeys |-> NewTile(k)]
    /\ scene = [k \in TileKeys |-> [live |-> FALSE, generation |-> 0, discarded |-> 0]]
    /\ geoms = <<>>
    /\ channel = [flight |-> {}, posted |-> <<>>]
    /\ worker = {}
    /\ events = <<>> /\ registered = <<>>

\* the scene loads a tile; a tile is built again; the worker answers a
\* request with the tile as built, or with a failure; an answer arrives: the
\* continuation of Tile.build runs for a result, a failure is reported and
\* nothing else is done
NextTiles ==
    \/ \E k \in TileKeys :
          /\ ~scene[k].live /\ Len(channel.posted) < MaxRequests
          /\ TilesCall(k, "load", Len(channel.posted) + 1, Scene_loadTile(TileOf(k), k))
    \/ \E k \in TileKeys :
          /\ scene[k].live /\ Len(channel.posted) < MaxRequests
          /\ TilesCall(k, "build", Len(channel.posted) + 1, Tile_build(TileOf(k)))
    \/ \E msg \in channel.flight, built_styles \in {<<"polygons">>} :
          /\ msg.type = "buildTile"
          /\ channel' = [channel EXCEPT !.flight = (@ \ {msg}) \cup
                            {[msg EXCEPT !.type = "built", !.tile = BuiltTile(msg, built_styles)]}]
          /\ worker' = worker \cup {[n |-> msg.n, key |-> msg.tile.key, type |-> "built"]}
          /\ UNCHANGED <<progvars, tile, geoms, scene, events, registered>>
    \/ \E msg \in channel.flight :
          /\ msg.type = "buildTile"
          /\ channel' = [channel EXCEPT !.flight = (@ \ {msg}) \cup
                            {[msg EXCEPT !.type = "failed"]}]
          /\ worker' = worker \cup {[n |-> msg.n, key |-> msg.tile.key, type |-> "failed"]}
          /\ UNCHANGED <<progvars, tile, geoms, scene, events, registered>>
    \/ \E k \in TileKeys, msg \in channel.flight :
          /\ msg.type = "built" /\ msg.tile[1].val = k
          /\ TilesCall(k, "buildTileCompleted", msg.n,
                       Scene_buildTileCompleted(
                           [TileOf(k) EXCEPT !.channel.flight = @ \ {msg}], msg))
    \/ \E k \in TileKeys, msg \in channel.flight :
          /\ msg.type = "failed" /\ msg.tile.key = k
          /\ TilesCall(k, "buildFailed", msg.n,
                       [TileOf(k) EXCEPT !.channel.flight = @ \ {msg}])

SpecTiles == InitTiles /\ [][NextTiles]_vars

(* ---------------------------------------------------------------------- *)
(* C21                                                                    *)
(* ---------------------------------------------------------------------- *)

C22_OneRequestOneCompletion ==
    /\ [](/\ \A a, b \in worker : a.n = b.n => a = b
          /\ \A a, b \in channel.flight : a.n = b.n => a = b)
    /\ [][/\ (last' # last /\ last'.op = "load")
             => LET k == last'.name
                    new == channel'.flight \ channel.flight
                IN /\ tile'[k].loading
                   /\ tile'[k].worker # Null
                   /\ scene'[k].generation = scene[k].generation + 1
                   /\ channel.flight \subseteq channel'.flight
                   /\ Cardinality(new) = 1
                   /\ \A msg \in new :
                         /\ msg.type = "buildTile" /\ msg.tile.key = k
                         /\ msg.worker = tile'[k].worker
                         /\ msg.generation = scene'[k].generation
                         /\ msg.n = last'.values[1]
                   /\ channel'.posted = Append(channel.posted, "buildTile")
          /\ \A msg \in channel.flight :
                (msg.type = "built" /\ msg \notin channel'.flight)
                => /\ last' # last /\ last'.op = "buildTileCompleted"
                   /\ last'.name = msg.tile[1].val /\ last'.values = <<msg.n>>
          /\ (last' # last /\ last'.op = "buildTileCompleted")
             => /\ channel'.flight \subseteq channel.flight
                /\ Cardinality(channel.flight \ channel'.flight) = 1
                /\ \A msg \in channel.flight \ channel'.flight :
                      msg.type = "built" /\ msg.n = last'.values[1]]_vars

\* the tiles 1/1/1 and 2/1/1 were loaded in that order, one request each;
\* the result for 2/1/1 has been completed, and taken, while the answer for
\* 1/1/1 is still in flight
C22_Witness ==
    /\ channel.posted = <<"buildTile", "buildTile">>
    /\ last.op = "buildTileCompleted" /\ last.name = "2/1/1" /\ last.values = <<2>>
    /\ tile["2/1/1"].loaded /\ C14_ShowsBuild(tile["2/1/1"], geoms, 2)
    /\ tile[TileKey].loading /\ ~tile[TileKey].loaded
    /\ \E msg \in channel.flight : msg.type = "built" /\ msg.n = 1

(* ---------------------------------------------------------------------- *)
(* SpecReg: the registry of programs.  Up to MaxRegistered programs are   *)
(* constructed, with a first compile that succeeds or fails, and any of   *)
(* them is used and destroyed, in any order and any number of times.  The  *)
(* global transform table changes in between, so that a constructor may   *)
(* also end in the error of its preprocessing.                            *)
(* ---------------------------------------------------------------------- *)
MaxRegistered == 2

NextReg ==
    \/ \E vs \in LifeVertexShaders, ok \in BOOLEAN :
          /\ Len(heap) < MaxRegistered
          /\ LET p == Len(heap) + 1
                 id == GLProgram_id
                 m0 == [Begin EXCEPT !.heap =
                           Append(heap, NewProgram(id, vs, LifeFragmentShader, NoOptions))]
             IN /\ Return(compile(m0, p, ok, {}, GLProgram_defines, GLProgram_transforms),
                          "new", p, "", <<>>)
                /\ GLProgram_id' = id + 1
                /\ GLProgram_programs' =
                      [i \in DOMAIN GLProgram_programs \cup {id} |->
                          IF i = id THEN p ELSE GLProgram_programs[i]]
          /\ UNCHANGED <<GLProgram_defines, GLProgram_transforms>>
    \/ \E p \in Programs : Destroy(p)
    \/ \E p \in Programs : Use(p)
    \/ \E transforms \in {<<s>> : s \in LifeSources} : AddTransform(KeyA, transforms)
    \/ RemoveTransform(KeyA)

SpecReg == Init /\ [][NextReg]_vars

(* ---------------------------------------------------------------------- *)
(* C23                                                                    *)
(* ---------------------------------------------------------------------- *)
\* the step constructs a program
C23_Constructs == Len(heap') = Len(heap) + 1
\* the step is a destroy() that found its program registered
C23_Destroys == last' # last /\ last'.op = "destroy"

\* C23: program ids are unique and strictly increasing in construction
\* order, and the registry GLProgram.programs maps id to program for exactly
\* the programs constructed and not yet destroyed: every entry leads to the
\* program that carries the id, a construction adds the entry of the new
\* program whether or not its first compile succeeds, a destroy() deletes
\* the entry of its own program and no other, and nothing else changes the
\* registry.
C23_RegistryHoldsLivePrograms ==
    /\ [](/\ \A p \in Programs, q \in Programs : p < q => heap[p].id < heap[q].id
          /\ \A p \in Programs : heap[p].id < GLProgram_id
          /\ \A i \in DOMAIN GLProgram_programs :
                /\ GLProgram_programs[i] \in Programs
                /\ heap[GLProgram_programs[i]].id = i)
    /\ [][LET before == DOMAIN GLProgram_programs
              after == DOMAIN GLProgram_programs'
          IN /\ C23_Constructs =>
                   /\ after = before \cup {heap'[Len(heap')].id}
                   /\ GLProgram_programs'[heap'[Len(heap')].id] = Len(heap')
             /\ (~C23_Constructs /\ C23_Destroys) =>
                   after = before \ {heap[last'.p].id}
             /\ (~C23_Constructs /\ ~C23_Destroys) => after = before
             /\ \A i \in before \cap after :
                   GLProgram_programs'[i] = GLProgram_programs[i]]_vars

\* two programs were constructed, the first with a failing first compile;
\* the second was destroyed and the first is the one left in the registry
C23_Witness ==
    /\ Len(heap) = 2
    /\ ~heap[1].compiled
    /\ last.op = "destroy" /\ last.p = 2
    /\ DOMAIN GLProgram_programs = {heap[1].id}
    /\ GLProgram_programs[heap[1].id] = 1
    /\ GLProgram_id = 2

(* ---------------------------------------------------------------------- *)
(* C24                                                                    *)
(* ---------------------------------------------------------------------- *)
\* the orders of the feature styles parseFeature returns in a build of tile
\* t: those of the visible rules matched for the features met that
\* parseFeature does not reject
C24_Orders(t, layers, rules) ==
    {r.rule.order :
        r \in {r \in UNION {C16_Matched(rules, lf[1], lf[2]) : lf \in C16_Met(t, layers)} :
                  r.rule.visible /\ r.rule.parsed}}

\* C24: a build of a tile whose order range is (Infinity, -Infinity) leaves
\* in tile.order.min and tile.order.max the least and the greatest order of
\* the feature styles parseFeature returned, and leaves (Infinity, -Infinity)
\* when it returned none; invisible rules and rejected features do not count;
\* and every feature style handed to a builder has its layer equal to its
\* order.
C24_OrderRange ==
    [][(/\ worker'.runs # worker.runs
        /\ worker.tile.order = [min |-> Infinity, max |-> -Infinity])
       => LET orders == C24_Orders(worker.tile, worker'.layers, worker'.rules)
              range == worker'.tile.order
          IN /\ orders = {} => range = [min |-> Infinity, max |-> -Infinity]
             /\ orders # {} =>
                   /\ range.min \in orders /\ \A o \in orders : range.min <= o
                   /\ range.max \in orders /\ \A o \in orders : range.max >= o
             /\ \A i \in 1..Len(worker'.calls) :
                   LET c == worker'.calls[i]
                   IN c.f \in {"buildPolygons", "buildLines", "buildPoints"}
                      => /\ c.feature_style.layer = c.feature_style.order
                         /\ c.feature_style.order \in orders]_vars

\* the first build of a tile met features whose matched rules were invisible
\* or rejected, with order 0, and features of a rule of order 3 that was
\* parsed: the range is (3, 3)
C24_Witness ==
    /\ worker.runs = 1
    /\ worker.tile.order = [min |-> 3, max |-> 3]
    /\ \E lf \in C16_Met(worker.tile, worker.layers) :
          \E r \in C16_Matched(worker.rules, lf[1], lf[2]) :
              ~r.rule.visible /\ r.rule.order < 3
    /\ \E lf \in C16_Met(worker.tile, worker.layers) :
          \E r \in C16_Matched(worker.rules, lf[1], lf[2]) :
              r.rule.visible /\ ~r.rule.parsed /\ r.rule.order < 3
    /\ \E i \in 1..Len(worker.calls) :
          /\ worker.calls[i].f \in {"buildPolygons", "buildLines", "buildPoints"}
          /\ worker.calls[i].feature_style.layer = 3

(* ---------------------------------------------------------------------- *)
(* C25                                                                    *)
(* ---------------------------------------------------------------------- *)
\* C25 as stated: the compiling flag is set only while compile() executes.
\* Every state of the model lies between two calls, so no program has the
\* flag set, however its last compile() ended, and no compile() ends in the
\* rejection of the reentrancy guard.
C25_Original ==
    /\ \A p \in Programs : ~heap[p].compiling
    /\ last.threw # "already compiling"

(* ---------------------------------------------------------------------- *)
(* C26                                                                    *)
(* ---------------------------------------------------------------------- *)
\* C26 as stated: whenever GLProgram.current is a program that has a program
\* object, that object is the one in use in the graphics context, and an
\* updateUniform() that pushed a value left the context with the program
\* object of its program in use.
C26_Original ==
    /\ (GLProgram_current # NoProgram /\ heap[GLProgram_current].program # Null)
       => gl_program = heap[GLProgram_current].program
    /\ (last.op = "updateUniform" /\ last.calls # <<>>)
       => gl_program = heap[last.p].program

(* ---------------------------------------------------------------------- *)
(* The event mixin, lines 739-777.  mixin(target) makes one Map, events,  *)
(* for the target: here a table from an event to its Set of listeners, a  *)
(* sequence without repetition in insertion order, which is the order     *)
(* Set.prototype.forEach visits.  An argument of on() is a string,        *)
(* [type |-> "string", value |-> event], or an object of event/listener   *)
(* pairs, [type |-> "object", props |-> pairs]; a listener is the name of *)
(* a function that leaves the mixin alone.                                *)
(* ---------------------------------------------------------------------- *)

\* on() whose Set moves a listener added again to its end
onMovesToEndMut(evs, arguments) ==
    LET add(v, event, listener) ==
            LET v1 == IF ~HasKey(v, event) THEN Append(v, Prop(event, <<>>)) ELSE v
                i == KeyIndex(v1, event)
                other(l) == l # listener
            IN [v1 EXCEPT ![i].val = Append(SelectSeq(@, other), listener)]
        RECURSIVE each(_, _)
        each(v, i) ==
            IF i > Len(arguments[1].props) THEN v
            ELSE each(add(v, arguments[1].props[i].key, arguments[1].props[i].val), i + 1)
    IN IF Len(arguments) = 1 /\ arguments[1].type = "object"
       THEN each(evs, 1)
       ELSE add(evs, arguments[1].value, arguments[2])

\* on(event, listener) and on({event: listener, ...}), lines 745-759
on(evs, arguments) ==
    LET add(v, event, listener) ==
            LET v1 == IF ~HasKey(v, event) THEN Append(v, Prop(event, <<>>)) ELSE v
                i == KeyIndex(v1, event)
            IN IF \E j \in 1..Len(v1[i].val) : v1[i].val[j] = listener
               THEN v1
               ELSE [v1 EXCEPT ![i].val = Append(@, listener)]
        RECURSIVE each(_, _)
        each(v, i) ==
            IF i > Len(arguments[1].props) THEN v
            ELSE each(add(v, arguments[1].props[i].key, arguments[1].props[i].val), i + 1)
    IN IF Len(arguments) = 1 /\ arguments[1].type = "object"
       THEN each(evs, 1)
       ELSE add(evs, arguments[1].value, arguments[2])

\* off(event, listener), lines 761-766
off(evs, event, listener) ==
    IF ~HasKey(evs, event) THEN evs
    ELSE LET other(l) == l # listener
         IN [evs EXCEPT ![KeyIndex(evs, event)].val = SelectSeq(@, other)]

\* trigger(event, ...data), lines 768-773: the calls it makes, in order
trigger(evs, event, data) ==
    IF ~HasKey(evs, event) THEN <<>>
    ELSE LET set == evs[KeyIndex(evs, event)].val
         IN [i \in 1..Len(set) |-> [listener |-> set[i], data |-> data]]

(* ---------------------------------------------------------------------- *)
(* SpecMix: two objects are extended by the mixin; listeners are          *)
(* registered on them, one at a time or as an object of pairs, removed,   *)
(* and events are triggered.  registered keeps, for each object and       *)
(* event, the listeners in the order of their first on() ever (first) and *)
(* those registered now in the order of the on() that registered them     *)
(* (since).  Object 1 is the subject and takes every call; object 2 is   *)
(* there to have a Map of its own, with one listener of one event.        *)
(* ---------------------------------------------------------------------- *)
InitMix ==
    /\ ProgramsAsLoaded
    /\ tile = <<>> /\ geoms = <<>> /\ scene = <<>> /\ channel = <<>> /\ worker = <<>>
    /\ events = [target \in {1, 2} |-> <<>>]
    /\ registered = [target \in {1, 2} |->
                        [event \in {"a", "b"} |-> [first |-> <<>>, since |-> <<>>]]]

NextMix ==
    LET noted(reg, event, listener) ==
            [reg EXCEPT ![event].first = IF \E j \in 1..Len(@) : @[j] = listener
                                         THEN @ ELSE Append(@, listener),
                        ![event].since = IF \E j \in 1..Len(@) : @[j] = listener
                                         THEN @ ELSE Append(@, listener)]
        RECURSIVE notedEach(_, _)
        notedEach(reg, pairs) ==
            IF pairs = <<>> THEN reg
            ELSE notedEach(noted(reg, Head(pairs).key, Head(pairs).val), Tail(pairs))
        call(op, target, name, values, calls) ==
            /\ last' = [op |-> op, p |-> target, threw |-> "", calls |-> calls,
                        name |-> name, values |-> values]
            /\ UNCHANGED <<heap, GLProgram_id, GLProgram_programs, GLProgram_current,
                           GLProgram_defines, GLProgram_transforms, gl_program, gl_objects>>
            /\ UNCHANGED <<tile, geoms, scene, channel, worker>>
    IN \/ \E target \in DOMAIN events, event \in {"a", "b"}, listener \in {"f", "g"} :
            /\ target # 1 => (event = "a" /\ listener = "f")
            /\ events' = [events EXCEPT ![target] =
                             on(@, <<[type |-> "string", value |-> event], listener>>)]
            /\ registered' = [registered EXCEPT ![target] = noted(@, event, listener)]
            /\ call("on", target, event, <<listener>>, <<>>)
       \/ \E target \in {1},
             pairs \in {<<Prop("a", "f"), Prop("b", "g")>>, <<Prop("b", "f"), Prop("a", "g")>>} :
            /\ events' = [events EXCEPT ![target] = on(@, <<[type |-> "object", props |-> pairs]>>)]
            /\ registered' = [registered EXCEPT ![target] = notedEach(@, pairs)]
            /\ call("on", target, "", pairs, <<>>)
       \/ \E target \in DOMAIN events, event \in {"a", "b"}, listener \in {"f", "g"} :
            /\ target # 1 => (event = "a" /\ listener = "f")
            /\ events' = [events EXCEPT ![target] = off(@, event, listener)]
            /\ registered' = [registered EXCEPT ![target][event].since =
                                 LET other(l) == l # listener IN SelectSeq(@, other)]
            /\ call("off", target, event, <<listener>>, <<>>)
       \/ \E target \in DOMAIN events, event \in {"a", "b"}, data \in {<<>>, <<1, 2>>} :
            /\ target # 1 => (event = "a" /\ data = <<>>)
            /\ call("trigger", target, event, data, trigger(events[target], event, data))
            /\ UNCHANGED <<events, registered>>

SpecMix == InitMix /\ [][NextMix]_vars

(* ---------------------------------------------------------------------- *)
(* C27                                                                    *)
(* ---------------------------------------------------------------------- *)
\* the listeners the last trigger called, in the order of the calls
C27_Called == [i \in 1..Len(last.calls) |-> last.calls[i].listener]

\* C27 as stated: a trigger calls the listeners registered for its event on
\* its object in the order in which they were first registered.
C27_Original ==
    last.op = "trigger"
    => LET now == registered[last.p][last.name].since
           still(l) == \E j \in 1..Len(now) : now[j] = l
       IN C27_Called = SelectSeq(registered[last.p][last.name].first, still)

\* C27: trigger(event, ...data) calls every listener registered for the
\* event on its object exactly once with the data, in the order of the on()
\* calls that registered them: an on() for a listener that is registered
\* changes nothing, and a listener removed with off() and registered again
\* is called after those registered in between; a listener removed is not
\* called, nor is one of another event or another object; trigger changes
\* no registration, and trigger and off for an event without listeners do
\* nothing.
C27_ListenersCalledInOrder ==
    /\ [](last.op = "trigger"
          => LET due == registered[last.p][last.name].since
             IN /\ last.calls = [i \in 1..Len(due) |->
                                    [listener |-> due[i], data |-> last.values]]
                /\ \A l \in {"f", "g"} :
                      Cardinality({i \in 1..Len(last.calls) : last.calls[i].listener = l})
                         = IF \E j \in 1..Len(due) : due[j] = l THEN 1 ELSE 0)
    /\ [][(last' # last /\ last'.op \in {"trigger", "off"})
          => /\ last'.op = "trigger" => events' = events
             /\ registered[last'.p][last'.name].since = <<>>
                => /\ events' = events
                   /\ last'.calls = <<>>
             /\ \A target \in DOMAIN events \ {last'.p} : events'[target] = events[target]]_vars

\* f and g were registered for an event, f was removed and registered again,
\* and the event was triggered with data: g was called before f; the same
\* listeners are registered on the other object and for the other event
C27_Witness ==
    /\ last.op = "trigger" /\ last.values = <<1, 2>>
    /\ registered[last.p][last.name].first = <<"f", "g">>
    /\ C27_Called = <<"g", "f">>
    /\ \E target \in DOMAIN events \ {last.p} : trigger(events[target], last.name, <<>>) # <<>>
    /\ \E event \in {"a", "b"} \ {last.name} : trigger(events[last.p], event, <<>>) # <<>>

====
